---- MODULE Spec2Model ----
(***************************************************************************)
(* Model of the ATM simulator's service layer: the account repository      *)
(* (JsonAccountRepository), the validator (AccountValidator), the account  *)
(* entity with its login-lockout counters (Account), the ledger            *)
(* (TransactionModel) and the services that sequence them (AccountService, *)
(* AdminService, AccountAnalyticsService).                                 *)
(*                                                                         *)
(* Money is an integer number of yuan.  Time is an integer number of       *)
(* minutes; QDateTime() (the invalid date) is NoTime.  A PIN and a salt    *)
(* are sequences of character codes (0..9 are the digits).  Every card     *)
(* number of the model is a well-formed 16-digit string; the empty-card    *)
(* and malformed-card early returns of the validators are not drawn as     *)
(* inputs.  The services run with the ledger attached                      *)
(* (AppController.cpp:50), so `if (m_transactionModel)` is taken.          *)
(***************************************************************************)
EXTENDS Integers, Sequences, FiniteSets, TLC

VARIABLES accounts, transactions, now, last, streak, pc, local, arg, res, raceInit,
          session, reply

vars == <<accounts, transactions, now, last, streak, pc, local, arg, res, raceInit, session,
          reply>>

----------------------------------------------------------------------------
(* Program constants                                                       *)

MAX_FAILED_ATTEMPTS == 3

TEMP_LOCK_DURATION == 15

MaxDeposit == 1000000

MaxTransfer == 1000000

AdminCard == "9999888877776666"

CardA == "1234567890123456"

CardB == "2345678901234567"

(* Bounds of the model                                                     *)

MaxTx == 2

MaxBalance == 300

MaxTime == 20

TickStep == 5

Cards == {CardA, CardB, AdminCard}

NoTime == -1

NoCard == ""

Amounts == {0, 100, 200}

PinA == <<1, 2, 3, 4>>

PinB == <<2, 3, 4, 5>>

PinAdmin == <<8, 8, 8, 8>>

EmptyPin == <<>>

Pins == {PinA, PinAdmin, EmptyPin}

Salts == {<<20>>, <<21>>}

----------------------------------------------------------------------------
(* Account                                                                 *)

HashPin(pin, salt) == <<"sha256", pin \o salt>>

VerifyPin(account, pin) == HashPin(pin, account.salt) = account.pinHash

NewAccount(cardNumber, pin, holderName, balance, withdrawLimit, isLocked, isAdmin, salt) ==
  [cardNumber |-> cardNumber, pinHash |-> HashPin(pin, salt), salt |-> salt,
   holderName |-> holderName, balance |-> balance, withdrawLimit |-> withdrawLimit,
   isLocked |-> isLocked, isAdmin |-> isAdmin, failedLoginAttempts |-> 0,
   lastFailedLogin |-> NoTime, temporaryLockTime |-> NoTime]

IsValidCardNumber(cardNumber) == cardNumber \in Cards

IsValidPin(pin) ==
  IF Len(pin) < 4 \/ Len(pin) > 6 THEN FALSE
  ELSE \A i \in 1..Len(pin) : pin[i] \in 0..9

(* Mutant: the new salt is used for the hash but not stored.               *)
SetPin_SaltNotStored(account, pin, salt) ==
  IF IsValidPin(pin) THEN [account EXCEPT !.pinHash = HashPin(pin, salt)] ELSE account

(* salt: the value generateSalt returns in this call.                      *)
SetPin(account, pin, salt) ==
  IF IsValidPin(pin)
    THEN [account EXCEPT !.salt = salt, !.pinHash = HashPin(pin, salt)]
    ELSE account

IsValid(account) ==
  IF ~IsValidCardNumber(account.cardNumber) THEN FALSE
  ELSE IF account.holderName = "" THEN FALSE
  ELSE IF account.balance < 0 \/ account.withdrawLimit < 0 THEN FALSE
  ELSE TRUE

(* Mutant: the lock is set only once the count has passed the threshold.   *)
RecordFailedLogin_LateLock(account, t) ==
  LET n == account.failedLoginAttempts + 1
      counted == [account EXCEPT !.failedLoginAttempts = n, !.lastFailedLogin = t]
  IN IF n > MAX_FAILED_ATTEMPTS
       THEN [account |-> [counted EXCEPT !.temporaryLockTime = t + TEMP_LOCK_DURATION],
             lockedNow |-> TRUE]
       ELSE [account |-> counted, lockedNow |-> FALSE]

(* Mutant: the lock is set only when the count reaches the threshold, not  *)
(* when it is already past it.                                             *)
RecordFailedLogin_ExactThreshold(account, t) ==
  LET n == account.failedLoginAttempts + 1
      counted == [account EXCEPT !.failedLoginAttempts = n, !.lastFailedLogin = t]
  IN IF n = MAX_FAILED_ATTEMPTS
       THEN [account |-> [counted EXCEPT !.temporaryLockTime = t + TEMP_LOCK_DURATION],
             lockedNow |-> TRUE]
       ELSE [account |-> counted, lockedNow |-> FALSE]

RecordFailedLogin(account, t) ==
  LET n == account.failedLoginAttempts + 1
      counted == [account EXCEPT !.failedLoginAttempts = n, !.lastFailedLogin = t]
  IN IF n >= MAX_FAILED_ATTEMPTS
       THEN [account |-> [counted EXCEPT !.temporaryLockTime = t + TEMP_LOCK_DURATION],
             lockedNow |-> TRUE]
       ELSE [account |-> counted, lockedNow |-> FALSE]

(* Mutant: the lock time is cleared but the count is kept.                 *)
ResetFailedLoginAttempts_KeepCount(account) ==
  [account EXCEPT !.temporaryLockTime = NoTime]

(* Mutant: the count is cleared but the lock time is kept.                 *)
ResetFailedLoginAttempts_KeepLock(account) ==
  [account EXCEPT !.failedLoginAttempts = 0]

ResetFailedLoginAttempts(account) ==
  [account EXCEPT !.failedLoginAttempts = 0, !.temporaryLockTime = NoTime]

(* Mutant: the account is still locked at the minute the lock ends.        *)
IsTemporarilyLocked_Inclusive(account, t) ==
  IF account.temporaryLockTime = NoTime THEN FALSE
  ELSE t <= account.temporaryLockTime

IsTemporarilyLocked(account, t) ==
  IF account.temporaryLockTime = NoTime THEN FALSE
  ELSE t < account.temporaryLockTime

----------------------------------------------------------------------------
(* JsonAccountRepository: m_accounts is a map keyed by card number.  ok is *)
(* whether the persistence manager could write the file.                   *)

AccountExists(accts, cardNumber) == cardNumber \in DOMAIN accts

Put(accts, account) ==
  [c \in (DOMAIN accts) \cup {account.cardNumber} |->
     IF c = account.cardNumber THEN account ELSE accts[c]]

SaveAccount(accts, account, ok) ==
  IF ~IsValid(account)
    THEN [success |-> FALSE, result |-> "InvalidAccount", accounts |-> accts]
    ELSE [success |-> ok,
          result |-> IF ok THEN "OK" ELSE "PersistenceFailure",
          accounts |-> Put(accts, account)]

(* deleteAccount removes the account from the map before it writes the     *)
(* file.                                                                   *)
DeleteFromRepository(accts, cardNumber, ok) ==
  IF ~AccountExists(accts, cardNumber)
    THEN [success |-> FALSE, result |-> "NotFound", accounts |-> accts]
    ELSE [success |-> ok,
          result |-> IF ok THEN "OK" ELSE "PersistenceFailure",
          accounts |-> [c \in (DOMAIN accts) \ {cardNumber} |-> accts[c]]]

(* loadAccounts: the accounts of the file, and the administrator's account *)
(* made anew when its card is not among them.                              *)
LoadAccounts(accts, salt) ==
  IF AccountExists(accts, AdminCard) THEN accts
  ELSE Put(accts, NewAccount(AdminCard, PinAdmin, "Holder", 100, 200, FALSE, TRUE, salt))

----------------------------------------------------------------------------
(* TransactionModel                                                        *)

CreateTransaction(cardNumber, type, amount, balanceAfter, targetCard, t) ==
  [cardNumber |-> cardNumber, timestamp |-> t, type |-> type, amount |-> amount,
   balanceAfter |-> balanceAfter, targetCardNumber |-> targetCard]

RecordTransaction(txs, cardNumber, type, amount, balanceAfter, targetCard, t) ==
  Append(txs, CreateTransaction(cardNumber, type, amount, balanceAfter, targetCard, t))

(* saveTransactions returns false when the file cannot be opened for       *)
(* writing.                                                                *)
SaveTransactions(txs, writable) == writable

(* addTransaction appends, calls saveTransactions and drops what it        *)
(* returns; the function is void, so its caller receives nothing.          *)
AddTransaction(txs, transaction, writable) ==
  [transactions |-> Append(txs, transaction),
   saved |-> SaveTransactions(Append(txs, transaction), writable),
   returned |-> "void"]

Reverse(s) == [i \in 1..Len(s) |-> s[Len(s) + 1 - i]]

(* Mutant: the records that stay are put in the opposite order.            *)
ClearTransactionsForCard_Reversed(txs, cardNumber) ==
  Reverse(SelectSeq(txs, LAMBDA tx : tx.cardNumber # cardNumber))

ClearTransactionsForCard(txs, cardNumber) ==
  SelectSeq(txs, LAMBDA tx : tx.cardNumber # cardNumber)

GetTransactionsForCard(txs, cardNumber) ==
  SelectSeq(txs, LAMBDA tx : tx.cardNumber = cardNumber)

(* The comparator of getRecentTransactions: a.timestamp > b.timestamp.     *)
NewestFirst(s) ==
  \A i, j \in 1..Len(s) : i < j => s[i].timestamp >= s[j].timestamp

Orderings(s) ==
  {[i \in 1..Len(s) |-> s[p[i]]] : p \in Permutations(1..Len(s))}

(* std::sort is not stable: records of one timestamp come out in any      *)
(* order, so the call has a set of possible results.                       *)
SortNewestFirst(s) == {o \in Orderings(s) : NewestFirst(o)}

(* Mutant: the list is cut to count before it is sorted.                   *)
GetRecentTransactions_CutFirst(txs, cardNumber, count) ==
  LET all == GetTransactionsForCard(txs, cardNumber) IN
  SortNewestFirst(IF Len(all) > count THEN SubSeq(all, 1, count) ELSE all)

GetRecentTransactions(txs, cardNumber, count) ==
  LET all == GetTransactionsForCard(txs, cardNumber) IN
  {IF Len(o) > count THEN SubSeq(o, 1, count) ELSE o : o \in SortNewestFirst(all)}

----------------------------------------------------------------------------
(* AccountValidator: every check yields "OK" or the tag of its failure.    *)

ValidateOperation(validations) ==
  IF \A i \in 1..Len(validations) : validations[i] = "OK" THEN "OK"
  ELSE validations[CHOOSE i \in 1..Len(validations) :
                     /\ validations[i] # "OK"
                     /\ \A j \in 1..(i - 1) : validations[j] = "OK"]

ValidateAccountExists(accts, cardNumber) ==
  IF ~AccountExists(accts, cardNumber) THEN "NotFound" ELSE "OK"

(* Mutant: only the administrator's lock is looked at.                     *)
ValidateAccountNotLocked_PermanentOnly(accts, t, cardNumber) ==
  IF ValidateAccountExists(accts, cardNumber) # "OK" THEN "NotFound"
  ELSE IF accts[cardNumber].isLocked THEN "PermanentlyLocked"
  ELSE "OK"

ValidateAccountNotLocked(accts, t, cardNumber) ==
  IF ValidateAccountExists(accts, cardNumber) # "OK" THEN "NotFound"
  ELSE IF accts[cardNumber].isLocked THEN "PermanentlyLocked"
  ELSE IF IsTemporarilyLocked(accts[cardNumber], t) THEN "TemporarilyLocked"
  ELSE "OK"

(* Mutant: the balance check is dropped.                                   *)
ValidateSufficientBalance_Unchecked(accts, cardNumber, amount) ==
  IF ~AccountExists(accts, cardNumber) THEN "NotFound" ELSE "OK"

ValidateSufficientBalance(accts, cardNumber, amount) ==
  IF ValidateAccountExists(accts, cardNumber) # "OK" THEN "NotFound"
  ELSE IF amount > accts[cardNumber].balance THEN "InsufficientFunds"
  ELSE "OK"

ValidateWithdrawLimit(accts, cardNumber, amount) ==
  IF ValidateAccountExists(accts, cardNumber) # "OK" THEN "NotFound"
  ELSE IF amount > accts[cardNumber].withdrawLimit THEN "LimitExceeded"
  ELSE "OK"

(* Mutant: the balance is checked before the limit.                       *)
ValidateWithdrawal_BalanceFirst(accts, t, cardNumber, amount) ==
  IF amount <= 0 THEN "InvalidAmount"
  ELSE ValidateOperation(<<ValidateAccountExists(accts, cardNumber),
                           ValidateAccountNotLocked(accts, t, cardNumber),
                           ValidateSufficientBalance(accts, cardNumber, amount),
                           ValidateWithdrawLimit(accts, cardNumber, amount)>>)

ValidateWithdrawal(accts, t, cardNumber, amount) ==
  IF amount <= 0 THEN "InvalidAmount"
  ELSE ValidateOperation(<<ValidateAccountExists(accts, cardNumber),
                           ValidateAccountNotLocked(accts, t, cardNumber),
                           ValidateWithdrawLimit(accts, cardNumber, amount),
                           ValidateSufficientBalance(accts, cardNumber, amount)>>)

(* Mutant: the ceiling itself is refused.                                  *)
ValidateDeposit_CeilingExclusive(accts, t, cardNumber, amount) ==
  IF amount <= 0 THEN "InvalidAmount"
  ELSE ValidateOperation(<<ValidateAccountExists(accts, cardNumber),
                           ValidateAccountNotLocked(accts, t, cardNumber),
                           IF amount >= MaxDeposit THEN "CeilingExceeded" ELSE "OK">>)

ValidateDeposit(accts, t, cardNumber, amount) ==
  IF amount <= 0 THEN "InvalidAmount"
  ELSE ValidateOperation(<<ValidateAccountExists(accts, cardNumber),
                           ValidateAccountNotLocked(accts, t, cardNumber),
                           IF amount > MaxDeposit THEN "CeilingExceeded" ELSE "OK">>)

(* Mutant: the source and the target may be the same card.                *)
ValidateTransfer_SameCardAllowed(accts, t, fromCardNumber, toCardNumber, amount) ==
  IF amount <= 0 THEN "InvalidAmount"
  ELSE ValidateOperation(<<ValidateAccountExists(accts, fromCardNumber),
                           ValidateAccountNotLocked(accts, t, fromCardNumber),
                           ValidateAccountExists(accts, toCardNumber),
                           ValidateAccountNotLocked(accts, t, toCardNumber),
                           ValidateSufficientBalance(accts, fromCardNumber, amount),
                           IF amount > MaxTransfer THEN "CeilingExceeded" ELSE "OK">>)

ValidateTransfer(accts, t, fromCardNumber, toCardNumber, amount) ==
  IF amount <= 0 THEN "InvalidAmount"
  ELSE ValidateOperation(<<IF fromCardNumber = toCardNumber THEN "SameCard" ELSE "OK",
                           ValidateAccountExists(accts, fromCardNumber),
                           ValidateAccountNotLocked(accts, t, fromCardNumber),
                           ValidateAccountExists(accts, toCardNumber),
                           ValidateAccountNotLocked(accts, t, toCardNumber),
                           ValidateSufficientBalance(accts, fromCardNumber, amount),
                           IF amount > MaxTransfer THEN "CeilingExceeded" ELSE "OK">>)

(* validateCredentials is the one check that writes: it saves the failure  *)
(* counters, ignoring the result of the save.                              *)
(* Mutant: the PIN is verified before the temporary lock is looked at, so  *)
(* the correct PIN passes a running lock.                                  *)
ValidateCredentials_PinFirst(accts, t, cardNumber, pin, ok) ==
  IF pin = EmptyPin THEN [result |-> "EmptyPin", accounts |-> accts]
  ELSE IF ~IsValidCardNumber(cardNumber) THEN [result |-> "BadCardFormat", accounts |-> accts]
  ELSE IF ~AccountExists(accts, cardNumber) THEN [result |-> "NotFound", accounts |-> accts]
  ELSE LET account == accts[cardNumber] IN
    IF account.isLocked THEN [result |-> "PermanentlyLocked", accounts |-> accts]
    ELSE IF VerifyPin(account, pin)
      THEN [result |-> "OK",
            accounts |-> SaveAccount(accts, ResetFailedLoginAttempts(account), ok).accounts]
    ELSE IF IsTemporarilyLocked(account, t)
      THEN [result |-> "TemporarilyLocked", accounts |-> accts]
    ELSE LET failed == RecordFailedLogin(account, t) IN
           [result |-> IF failed.lockedNow THEN "WrongPinLocked" ELSE "WrongPin",
            accounts |-> SaveAccount(accts, failed.account, ok).accounts]

(* Mutant: the permanent lock is looked at last, after the temporary lock  *)
(* and the PIN.                                                            *)
ValidateCredentials_LockCheckedLast(accts, t, cardNumber, pin, ok) ==
  IF pin = EmptyPin THEN [result |-> "EmptyPin", accounts |-> accts]
  ELSE IF ~IsValidCardNumber(cardNumber) THEN [result |-> "BadCardFormat", accounts |-> accts]
  ELSE IF ~AccountExists(accts, cardNumber) THEN [result |-> "NotFound", accounts |-> accts]
  ELSE LET account == accts[cardNumber] IN
    IF IsTemporarilyLocked(account, t)
      THEN [result |-> "TemporarilyLocked", accounts |-> accts]
    ELSE IF ~VerifyPin(account, pin)
      THEN LET failed == RecordFailedLogin(account, t) IN
           [result |-> IF failed.lockedNow THEN "WrongPinLocked" ELSE "WrongPin",
            accounts |-> SaveAccount(accts, failed.account, ok).accounts]
    ELSE IF account.isLocked THEN [result |-> "PermanentlyLocked", accounts |-> accts]
    ELSE IF account.failedLoginAttempts > 0
      THEN [result |-> "OK",
            accounts |-> SaveAccount(accts, ResetFailedLoginAttempts(account), ok).accounts]
    ELSE [result |-> "OK", accounts |-> accts]

ValidateCredentials(accts, t, cardNumber, pin, ok) ==
  IF pin = EmptyPin THEN [result |-> "EmptyPin", accounts |-> accts]
  ELSE IF ~IsValidCardNumber(cardNumber) THEN [result |-> "BadCardFormat", accounts |-> accts]
  ELSE IF ~AccountExists(accts, cardNumber) THEN [result |-> "NotFound", accounts |-> accts]
  ELSE LET account == accts[cardNumber] IN
    IF account.isLocked THEN [result |-> "PermanentlyLocked", accounts |-> accts]
    ELSE IF IsTemporarilyLocked(account, t)
      THEN [result |-> "TemporarilyLocked", accounts |-> accts]
    ELSE IF ~VerifyPin(account, pin)
      THEN LET failed == RecordFailedLogin(account, t) IN
           [result |-> IF failed.lockedNow THEN "WrongPinLocked" ELSE "WrongPin",
            accounts |-> SaveAccount(accts, failed.account, ok).accounts]
    ELSE IF account.failedLoginAttempts > 0
      THEN [result |-> "OK",
            accounts |-> SaveAccount(accts, ResetFailedLoginAttempts(account), ok).accounts]
    ELSE [result |-> "OK", accounts |-> accts]

ValidateAdminLogin(accts, t, cardNumber, pin, ok) ==
  LET v == ValidateCredentials(accts, t, cardNumber, pin, ok) IN
  IF v.result # "OK" THEN v
  ELSE IF ~v.accounts[cardNumber].isAdmin
    THEN [result |-> "NotAdmin", accounts |-> v.accounts]
  ELSE v

ValidateAdminOperation(accts, cardNumber) ==
  IF cardNumber = NoCard THEN "EmptyCard"
  ELSE IF ~AccountExists(accts, cardNumber) THEN "NotFound"
  ELSE IF ~accts[cardNumber].isAdmin THEN "NotAdmin"
  ELSE IF accts[cardNumber].isLocked THEN "PermanentlyLocked"
  ELSE "OK"

ValidatePinFormat(pin) == IF ~IsValidPin(pin) THEN "BadPinFormat" ELSE "OK"

(* Mutant: the check of the current PIN does not write the failure         *)
(* counters.                                                               *)
ValidatePinChange_CountersUnwritten(accts, t, cardNumber, currentPin, newPin, confirmPin, ok) ==
  LET v == ValidateCredentials(accts, t, cardNumber, currentPin, ok) IN
  IF v.result # "OK" THEN [result |-> v.result, accounts |-> accts]
  ELSE IF ~AccountExists(accts, cardNumber)
    THEN [result |-> "NotFound", accounts |-> accts]
  ELSE IF ~IsValidPin(newPin) THEN [result |-> "BadNewPin", accounts |-> accts]
  ELSE IF confirmPin # EmptyPin /\ newPin # confirmPin
    THEN [result |-> "ConfirmMismatch", accounts |-> accts]
  ELSE IF VerifyPin(accts[cardNumber], newPin)
    THEN [result |-> "SamePin", accounts |-> accts]
  ELSE [result |-> "OK", accounts |-> accts]

(* The credentials check comes first and writes the failure counters; the  *)
(* other checks read the account as that check left it.                    *)
ValidatePinChange(accts, t, cardNumber, currentPin, newPin, confirmPin, ok) ==
  LET v == ValidateCredentials(accts, t, cardNumber, currentPin, ok) IN
  IF v.result # "OK" THEN v
  ELSE IF ~AccountExists(v.accounts, cardNumber)
    THEN [result |-> "NotFound", accounts |-> v.accounts]
  ELSE IF ~IsValidPin(newPin) THEN [result |-> "BadNewPin", accounts |-> v.accounts]
  ELSE IF confirmPin # EmptyPin /\ newPin # confirmPin
    THEN [result |-> "ConfirmMismatch", accounts |-> v.accounts]
  ELSE IF VerifyPin(v.accounts[cardNumber], newPin)
    THEN [result |-> "SamePin", accounts |-> v.accounts]
  ELSE [result |-> "OK", accounts |-> v.accounts]

(* validateTargetAccount looks at the administrative lock only.            *)
ValidateTargetAccount(accts, targetCardNumber) ==
  IF targetCardNumber = NoCard THEN "EmptyCard"
  ELSE IF ~IsValidCardNumber(targetCardNumber) THEN "BadCardFormat"
  ELSE IF ~AccountExists(accts, targetCardNumber) THEN "TargetNotFound"
  ELSE IF accts[targetCardNumber].isLocked THEN "TargetLocked"
  ELSE "OK"

(* Mutant: a card number that is already in the repository is let through. *)
ValidateCreateAccount_ExistingAllowed(accts, cardNumber, pin, holderName, balance, withdrawLimit) ==
  ValidateOperation(<<IF ~IsValidCardNumber(cardNumber) THEN "BadCardFormat" ELSE "OK",
                      IF ~IsValidPin(pin) THEN "BadPinFormat" ELSE "OK",
                      IF holderName = "" THEN "EmptyName" ELSE "OK",
                      IF balance < 0 THEN "NegativeBalance"
                      ELSE IF withdrawLimit <= 0 THEN "NonPositiveLimit" ELSE "OK">>)

ValidateCreateAccount(accts, cardNumber, pin, holderName, balance, withdrawLimit) ==
  ValidateOperation(<<IF ~IsValidCardNumber(cardNumber) THEN "BadCardFormat" ELSE "OK",
                      IF AccountExists(accts, cardNumber) THEN "CardExists" ELSE "OK",
                      IF ~IsValidPin(pin) THEN "BadPinFormat" ELSE "OK",
                      IF holderName = "" THEN "EmptyName" ELSE "OK",
                      IF balance < 0 THEN "NegativeBalance"
                      ELSE IF withdrawLimit <= 0 THEN "NonPositiveLimit" ELSE "OK">>)

ValidateUpdateAccount(accts, cardNumber, holderName, balance, withdrawLimit) ==
  IF ~AccountExists(accts, cardNumber) THEN "NotFound"
  ELSE IF holderName = "" THEN "EmptyName"
  ELSE IF balance < 0 THEN "NegativeBalance"
  ELSE IF withdrawLimit <= 0 THEN "NonPositiveLimit"
  ELSE "OK"

----------------------------------------------------------------------------
(* AccountService.  Each operator is the whole call: it yields the result  *)
(* tag and the repository and ledger the call leaves behind.               *)

Outcome(result, accts, txs) == [result |-> result, accounts |-> accts, transactions |-> txs]

PerformLogin(accts, txs, t, cardNumber, pin, ok) ==
  LET v == ValidateCredentials(accts, t, cardNumber, pin, ok) IN
  IF v.result # "OK" THEN Outcome(v.result, v.accounts, txs)
  ELSE Outcome("OK", v.accounts,
               RecordTransaction(txs, cardNumber, "Other", 0,
                                 v.accounts[cardNumber].balance, NoCard, t))

(* Mutant: the record carries the balance read before the debit.          *)
WithdrawAmount_StaleRecord(accts, txs, t, cardNumber, amount, ok) ==
  LET v == ValidateWithdrawal(accts, t, cardNumber, amount) IN
  IF v # "OK" THEN Outcome(v, accts, txs)
  ELSE LET account == [accts[cardNumber] EXCEPT !.balance = @ - amount]
           saved == SaveAccount(accts, account, ok)
       IN IF ~saved.success THEN Outcome(saved.result, saved.accounts, txs)
          ELSE Outcome("OK", saved.accounts,
                       RecordTransaction(txs, cardNumber, "Withdrawal", amount,
                                         accts[cardNumber].balance, NoCard, t))

WithdrawAmount(accts, txs, t, cardNumber, amount, ok) ==
  LET v == ValidateWithdrawal(accts, t, cardNumber, amount) IN
  IF v # "OK" THEN Outcome(v, accts, txs)
  ELSE LET account == [accts[cardNumber] EXCEPT !.balance = @ - amount]
           saved == SaveAccount(accts, account, ok)
       IN IF ~saved.success THEN Outcome(saved.result, saved.accounts, txs)
          ELSE Outcome("OK", saved.accounts,
                       RecordTransaction(txs, cardNumber, "Withdrawal", amount,
                                         account.balance, NoCard, t))

(* Mutant: the record is appended before the account is saved.            *)
DepositAmount_AppendFirst(accts, txs, t, cardNumber, amount, ok) ==
  LET v == ValidateDeposit(accts, t, cardNumber, amount) IN
  IF v # "OK" THEN Outcome(v, accts, txs)
  ELSE LET account == [accts[cardNumber] EXCEPT !.balance = @ + amount]
           recorded == RecordTransaction(txs, cardNumber, "Deposit", amount,
                                         account.balance, NoCard, t)
           saved == SaveAccount(accts, account, ok)
       IN IF ~saved.success THEN Outcome(saved.result, saved.accounts, recorded)
          ELSE Outcome("OK", saved.accounts, recorded)

DepositAmount(accts, txs, t, cardNumber, amount, ok) ==
  LET v == ValidateDeposit(accts, t, cardNumber, amount) IN
  IF v # "OK" THEN Outcome(v, accts, txs)
  ELSE LET account == [accts[cardNumber] EXCEPT !.balance = @ + amount]
           saved == SaveAccount(accts, account, ok)
       IN IF ~saved.success THEN Outcome(saved.result, saved.accounts, txs)
          ELSE Outcome("OK", saved.accounts,
                       RecordTransaction(txs, cardNumber, "Deposit", amount,
                                         account.balance, NoCard, t))

(* Mutant: the target's record is written before the source's.            *)
TransferAmount_TargetFirst(accts, txs, t, fromCardNumber, toCardNumber, amount, oks) ==
  LET v == ValidateTransfer(accts, t, fromCardNumber, toCardNumber, amount) IN
  IF v # "OK" THEN Outcome(v, accts, txs)
  ELSE LET fromAccount == [accts[fromCardNumber] EXCEPT !.balance = @ - amount]
           toAccount == [accts[toCardNumber] EXCEPT !.balance = @ + amount]
       IN Outcome("OK", Put(Put(accts, fromAccount), toAccount),
                  RecordTransaction(
                    RecordTransaction(txs, toCardNumber, "Deposit", amount,
                                      toAccount.balance, fromCardNumber, t),
                    fromCardNumber, "Transfer", amount, fromAccount.balance,
                    toCardNumber, t))

(* oks[1], oks[2], oks[3]: whether the file could be written at the save   *)
(* of the source, of the target, and of the rolled-back source.            *)
TransferAmount(accts, txs, t, fromCardNumber, toCardNumber, amount, oks) ==
  LET v == ValidateTransfer(accts, t, fromCardNumber, toCardNumber, amount) IN
  IF v # "OK" THEN Outcome(v, accts, txs)
  ELSE LET fromAccount == [accts[fromCardNumber] EXCEPT !.balance = @ - amount]
           toAccount == [accts[toCardNumber] EXCEPT !.balance = @ + amount]
           saveFrom == SaveAccount(accts, fromAccount, oks[1])
       IN IF ~saveFrom.success THEN Outcome(saveFrom.result, saveFrom.accounts, txs)
          ELSE LET saveTo == SaveAccount(saveFrom.accounts, toAccount, oks[2]) IN
            IF ~saveTo.success
              THEN LET rolledBack == [fromAccount EXCEPT !.balance = @ + amount] IN
                   Outcome(saveTo.result,
                           SaveAccount(saveTo.accounts, rolledBack, oks[3]).accounts, txs)
              ELSE Outcome("OK", saveTo.accounts,
                     RecordTransaction(
                       RecordTransaction(txs, fromCardNumber, "Transfer", amount,
                                         fromAccount.balance, toCardNumber, t),
                       toCardNumber, "Deposit", amount, toAccount.balance,
                       fromCardNumber, t))

(* changePin assigns newPin to account.pin and saves the account.  Account *)
(* declares pinHash and salt and no pin; verifyPin reads pinHash and salt, *)
(* which changePin leaves as they were, so the saved account is the one    *)
(* that was found.  oks[1]: the save of validateCredentials; oks[2]: the   *)
(* save of changePin.                                                      *)
ChangePinOp(accts, txs, t, cardNumber, currentPin, newPin, confirmPin, oks) ==
  LET v == ValidatePinChange(accts, t, cardNumber, currentPin, newPin, confirmPin, oks[1]) IN
  IF v.result # "OK" THEN Outcome(v.result, v.accounts, txs)
  ELSE LET account == v.accounts[cardNumber]
           saved == SaveAccount(v.accounts, account, oks[2])
       IN IF ~saved.success THEN Outcome(saved.result, saved.accounts, txs)
          ELSE Outcome("OK", saved.accounts,
                       RecordTransaction(txs, cardNumber, "Other", 0, account.balance,
                                         NoCard, t))

----------------------------------------------------------------------------
(* AdminService.  logAdminOperation is always called with an empty admin   *)
(* card number, so it appends one record, on the target card, when that    *)
(* card is still in the repository.                                        *)

(* Mutant: the record carries the amount, 0, where the balance belongs.    *)
LogAdminOperation_AmountAsBalance(accts, txs, t, targetCardNumber) ==
  IF targetCardNumber # NoCard /\ AccountExists(accts, targetCardNumber)
    THEN RecordTransaction(txs, targetCardNumber, "Other", 0, 0, NoCard, t)
    ELSE txs

LogAdminOperation(accts, txs, t, targetCardNumber) ==
  IF targetCardNumber # NoCard /\ AccountExists(accts, targetCardNumber)
    THEN RecordTransaction(txs, targetCardNumber, "Other", 0,
                           accts[targetCardNumber].balance, NoCard, t)
    ELSE txs

CreateAccountOp(accts, txs, t, cardNumber, pin, holderName, balance, withdrawLimit, isAdmin, salt, ok) ==
  LET v == ValidateCreateAccount(accts, cardNumber, pin, holderName, balance, withdrawLimit) IN
  IF v # "OK" THEN Outcome(v, accts, txs)
  ELSE LET newAccount == NewAccount(cardNumber, pin, holderName, balance, withdrawLimit,
                                    FALSE, isAdmin, salt)
           saved == SaveAccount(accts, newAccount, ok)
       IN IF ~saved.success THEN Outcome(saved.result, saved.accounts, txs)
          ELSE Outcome("OK", saved.accounts,
                       LogAdminOperation(saved.accounts, txs, t, cardNumber))

(* Mutant: the update also clears the failure counters.                    *)
UpdateAccountOp_CountersCleared(accts, txs, t, cardNumber, holderName, balance, withdrawLimit, isLocked, ok) ==
  LET v == ValidateUpdateAccount(accts, cardNumber, holderName, balance, withdrawLimit) IN
  IF v # "OK" THEN Outcome(v, accts, txs)
  ELSE LET account == [ResetFailedLoginAttempts(accts[cardNumber])
                         EXCEPT !.holderName = holderName,
                                !.balance = balance,
                                !.withdrawLimit = withdrawLimit,
                                !.isLocked = isLocked]
           saved == SaveAccount(accts, account, ok)
       IN IF ~saved.success THEN Outcome(saved.result, saved.accounts, txs)
          ELSE Outcome("OK", saved.accounts,
                       LogAdminOperation(saved.accounts, txs, t, cardNumber))

UpdateAccountOp(accts, txs, t, cardNumber, holderName, balance, withdrawLimit, isLocked, ok) ==
  LET v == ValidateUpdateAccount(accts, cardNumber, holderName, balance, withdrawLimit) IN
  IF v # "OK" THEN Outcome(v, accts, txs)
  ELSE LET account == [accts[cardNumber] EXCEPT !.holderName = holderName,
                                                !.balance = balance,
                                                !.withdrawLimit = withdrawLimit,
                                                !.isLocked = isLocked]
           saved == SaveAccount(accts, account, ok)
       IN IF ~saved.success THEN Outcome(saved.result, saved.accounts, txs)
          ELSE Outcome("OK", saved.accounts,
                       LogAdminOperation(saved.accounts, txs, t, cardNumber))

SetAccountLockStatusOp(accts, txs, t, cardNumber, locked, ok) ==
  IF ValidateAccountExists(accts, cardNumber) # "OK" THEN Outcome("NotFound", accts, txs)
  ELSE IF accts[cardNumber].isAdmin /\ locked THEN Outcome("AdminNotLockable", accts, txs)
  ELSE LET flagged == [accts[cardNumber] EXCEPT !.isLocked = locked]
           account == IF ~locked THEN ResetFailedLoginAttempts(flagged) ELSE flagged
           saved == SaveAccount(accts, account, ok)
       IN IF ~saved.success THEN Outcome(saved.result, saved.accounts, txs)
          ELSE Outcome("OK", saved.accounts,
                       LogAdminOperation(saved.accounts, txs, t, cardNumber))

PerformAdminLogin(accts, txs, t, cardNumber, pin, ok) ==
  LET v == ValidateAdminLogin(accts, t, cardNumber, pin, ok) IN
  Outcome(v.result, v.accounts, txs)

(* Mutant: the records of the deleted card stay in the ledger.             *)
DeleteAccountOp_KeepRecords(accts, txs, t, cardNumber, ok) ==
  IF ValidateAccountExists(accts, cardNumber) # "OK" THEN Outcome("NotFound", accts, txs)
  ELSE IF accts[cardNumber].isAdmin THEN Outcome("AdminNotDeletable", accts, txs)
  ELSE Outcome("OK", DeleteFromRepository(accts, cardNumber, ok).accounts, txs)

(* The log written after the deletion finds no target account any more.    *)
DeleteAccountOp(accts, txs, t, cardNumber, ok) ==
  IF ValidateAccountExists(accts, cardNumber) # "OK" THEN Outcome("NotFound", accts, txs)
  ELSE IF accts[cardNumber].isAdmin THEN Outcome("AdminNotDeletable", accts, txs)
  ELSE LET deleted == DeleteFromRepository(accts, cardNumber, ok) IN
       IF ~deleted.success THEN Outcome(deleted.result, deleted.accounts, txs)
       ELSE Outcome("OK", deleted.accounts,
                    LogAdminOperation(deleted.accounts,
                                      ClearTransactionsForCard(txs, cardNumber), t, cardNumber))

(* Mutant: the count of administrators is not taken.                       *)
DeleteAccountModelOp_NoCount(accts, txs, t, cardNumber, ok) ==
  IF ~AccountExists(accts, cardNumber) THEN Outcome("NotFound", accts, txs)
  ELSE Outcome("OK", DeleteFromRepository(accts, cardNumber, ok).accounts,
               ClearTransactionsForCard(txs, cardNumber))

(* AccountModel::deleteAccount, the account model's own deletion: only the *)
(* last administrator is kept; the result of the save is not looked at.    *)
DeleteAccountModelOp(accts, txs, t, cardNumber, ok) ==
  IF ~AccountExists(accts, cardNumber) THEN Outcome("NotFound", accts, txs)
  ELSE IF /\ accts[cardNumber].isAdmin
          /\ Cardinality({c \in DOMAIN accts : accts[c].isAdmin}) <= 1
    THEN Outcome("LastAdmin", accts, txs)
  ELSE Outcome("OK", DeleteFromRepository(accts, cardNumber, ok).accounts,
               ClearTransactionsForCard(txs, cardNumber))

(* Mutant: the new PIN is set and the failure counters are left alone.     *)
ResetPinOp_CountersKept(accts, txs, t, cardNumber, newPin, salt, ok) ==
  IF ValidatePinFormat(newPin) # "OK" THEN Outcome(ValidatePinFormat(newPin), accts, txs)
  ELSE IF ValidateAccountExists(accts, cardNumber) # "OK" THEN Outcome("NotFound", accts, txs)
  ELSE LET account == SetPin(accts[cardNumber], newPin, salt)
           saved == SaveAccount(accts, account, ok)
       IN IF ~saved.success THEN Outcome(saved.result, saved.accounts, txs)
          ELSE Outcome("OK", saved.accounts,
                       LogAdminOperation(saved.accounts, txs, t, cardNumber))

ResetPinOp(accts, txs, t, cardNumber, newPin, salt, ok) ==
  IF ValidatePinFormat(newPin) # "OK" THEN Outcome(ValidatePinFormat(newPin), accts, txs)
  ELSE IF ValidateAccountExists(accts, cardNumber) # "OK" THEN Outcome("NotFound", accts, txs)
  ELSE LET account == ResetFailedLoginAttempts(SetPin(accts[cardNumber], newPin, salt))
           saved == SaveAccount(accts, account, ok)
       IN IF ~saved.success THEN Outcome(saved.result, saved.accounts, txs)
          ELSE Outcome("OK", saved.accounts,
                       LogAdminOperation(saved.accounts, txs, t, cardNumber))

SetWithdrawLimitOp(accts, txs, t, cardNumber, limit, ok) ==
  IF limit <= 0 THEN Outcome("NonPositiveLimit", accts, txs)
  ELSE IF ValidateAccountExists(accts, cardNumber) # "OK" THEN Outcome("NotFound", accts, txs)
  ELSE LET account == [accts[cardNumber] EXCEPT !.withdrawLimit = limit]
           saved == SaveAccount(accts, account, ok)
       IN IF ~saved.success THEN Outcome(saved.result, saved.accounts, txs)
          ELSE Outcome("OK", saved.accounts,
                       LogAdminOperation(saved.accounts, txs, t, cardNumber))

----------------------------------------------------------------------------
(* AccountAnalyticsService.  A timestamp is a number of minutes; its date  *)
(* is the number of whole days in it.  The service computes in double; the *)
(* model computes the same expressions in exact fractions <<n, d>>, d > 0, *)
(* in lowest terms.                                                        *)

DayLength == 1440

DateOf(t) == t \div DayLength

Abs(n) == IF n < 0 THEN -n ELSE n

RECURSIVE GCD(_, _)
GCD(a, b) == IF b = 0 THEN a ELSE GCD(b, a % b)

Frac(n, d) ==
  LET g == GCD(Abs(n), Abs(d))
      sign == IF d < 0 THEN -1 ELSE 1 IN
  <<sign * (n \div g), sign * (d \div g)>>

Whole(n) == <<n, 1>>

Plus(x, y) == Frac(x[1] * y[2] + y[1] * x[2], x[2] * y[2])

Minus(x, y) == Frac(x[1] * y[2] - y[1] * x[2], x[2] * y[2])

Times(x, y) == Frac(x[1] * y[1], x[2] * y[2])

Over(x, y) == Frac(x[1] * y[2], x[2] * y[1])

Less(x, y) == x[1] * y[2] < y[1] * x[2]

RECURSIVE SumOf(_)
SumOf(s) == IF s = <<>> THEN Whole(0) ELSE Plus(Head(s), SumOf(Tail(s)))

(* predictedBalance < 0 is replaced by 0.                                  *)
NotNegative(x) == IF Less(x, Whole(0)) THEN Whole(0) ELSE x

IsIncome(tx) == tx.type = "Deposit"

IsExpense(tx) == tx.type = "Withdrawal" \/ tx.type = "Transfer"

(* The records whose date lies between startDate and endDate.              *)
InDates(s, startDate, endDate) ==
  SelectSeq(s, LAMBDA tx : DateOf(tx.timestamp) >= startDate /\ DateOf(tx.timestamp) <= endDate)

GetTransactionFrequency(accts, txs, t, cardNumber, days) ==
  LET all == GetTransactionsForCard(txs, cardNumber) IN
  IF cardNumber = NoCard \/ days <= 0 THEN Whole(0)
  ELSE IF ~AccountExists(accts, cardNumber) THEN Whole(0)
  ELSE IF all = <<>> THEN Whole(0)
  ELSE Frac(Len(InDates(all, DateOf(t) - days + 1, DateOf(t))), days)

AnalysisPeriod == 90

(* weight = 1.0 / (1.0 + daysAgo * 0.05)                                   *)
Weight(tx, t) == Frac(20, 20 + (DateOf(t) - DateOf(tx.timestamp)))

(* (total / totalWeight) / analysisPeriod, or 0 when nothing was weighed.  *)
WeightedDaily(s, t) ==
  LET total == SumOf([i \in 1..Len(s) |-> Times(Whole(s[i].amount), Weight(s[i], t))])
      totalWeight == SumOf([i \in 1..Len(s) |-> Weight(s[i], t)]) IN
  IF Less(Whole(0), totalWeight) THEN Over(Over(total, totalWeight), Whole(AnalysisPeriod))
  ELSE Whole(0)

PredictBalanceWithWeightedAverage(accts, txs, t, cardNumber, daysInFuture) ==
  LET all == GetTransactionsForCard(txs, cardNumber)
      window == InDates(all, DateOf(t) - AnalysisPeriod, DateOf(t))
      frequency == GetTransactionFrequency(accts, txs, t, cardNumber, AnalysisPeriod)
      scale == IF Less(frequency, Whole(1)) THEN frequency ELSE Whole(1)
      income == WeightedDaily(SelectSeq(window, IsIncome), t)
      expense == WeightedDaily(SelectSeq(window, IsExpense), t)
      dailyIncome == IF Less(Whole(0), frequency) THEN Times(income, scale) ELSE income
      dailyExpense == IF Less(Whole(0), frequency) THEN Times(expense, scale) ELSE expense IN
  IF Len(all) < 2
    THEN IF AccountExists(accts, cardNumber) THEN Whole(accts[cardNumber].balance) ELSE Whole(0)
  ELSE IF ~AccountExists(accts, cardNumber) THEN Whole(0)
  ELSE NotNegative(Plus(Whole(accts[cardNumber].balance),
                        Times(Minus(dailyIncome, dailyExpense), Whole(daysInFuture))))

PredictBalance(accts, txs, t, cardNumber, daysInFuture) ==
  PredictBalanceWithWeightedAverage(accts, txs, t, cardNumber, daysInFuture)

(* What a record added to the balance it left behind.                      *)
Signed(tx) == IF IsIncome(tx) THEN tx.amount ELSE IF IsExpense(tx) THEN -tx.amount ELSE 0

RECURSIVE SumSigned(_)
SumSigned(s) == IF s = <<>> THEN 0 ELSE Signed(Head(s)) + SumSigned(Tail(s))

(* dailyBalances: for every date with a record, the balance before the     *)
(* first record of that date, reached by undoing the records from the      *)
(* newest back.                                                            *)
DailyBalances(all, currentBalance) ==
  [date \in {DateOf(all[i].timestamp) : i \in 1..Len(all)} |->
     currentBalance
       - SumSigned(SelectSeq(all, LAMBDA tx : DateOf(tx.timestamp) >= date))]

MinOf(keys) == CHOOSE k \in keys : \A other \in keys : k <= other

MaxOf(keys) == CHOOSE k \in keys : \A other \in keys : k >= other

(* calculateLinearRegression over the points (x[k], y[k]), k in keys.      *)
CalculateLinearRegression(keys, x, y) ==
  LET points == SelectSeq([i \in 1..(MaxOf(keys) - MinOf(keys) + 1) |-> MinOf(keys) + i - 1],
                          LAMBDA k : k \in keys)
      count == Whole(Cardinality(keys))
      xMean == Over(SumOf([i \in 1..Len(points) |-> Whole(x[points[i]])]), count)
      yMean == Over(SumOf([i \in 1..Len(points) |-> Whole(y[points[i]])]), count)
      numerator == SumOf([i \in 1..Len(points) |->
                            Times(Minus(Whole(x[points[i]]), xMean),
                                  Minus(Whole(y[points[i]]), yMean))])
      denominator == SumOf([i \in 1..Len(points) |->
                              Times(Minus(Whole(x[points[i]]), xMean),
                                    Minus(Whole(x[points[i]]), xMean))]) IN
  IF denominator = Whole(0) THEN [slope |-> Whole(0), intercept |-> yMean]
  ELSE [slope |-> Over(numerator, denominator),
        intercept |-> Minus(yMean, Times(Over(numerator, denominator), xMean))]

MinRegressionRecords == 5

(* The part of predictBalanceWithRegression that runs once there are       *)
(* records enough: the daily balances, the fallback when they are fewer    *)
(* than two, the fitted line.                                              *)
RegressionOverDays(accts, txs, t, cardNumber, daysInFuture) ==
  LET all == GetTransactionsForCard(txs, cardNumber)
      daily == DailyBalances(all, accts[cardNumber].balance)
      x == [date \in DOMAIN daily |-> DateOf(t) - date]
      line == CalculateLinearRegression(DOMAIN daily, x, daily) IN
  IF Cardinality(DOMAIN daily) < 2
    THEN PredictBalanceWithWeightedAverage(accts, txs, t, cardNumber, daysInFuture)
  ELSE NotNegative(Plus(Times(line.slope, Whole(-daysInFuture)), line.intercept))

(* Mutant: with fewer than five records the weighted average is returned.  *)
PredictBalanceWithRegression_WeightedFallback(accts, txs, t, cardNumber, daysInFuture) ==
  IF ~AccountExists(accts, cardNumber) THEN Whole(0)
  ELSE IF Len(GetTransactionsForCard(txs, cardNumber)) < MinRegressionRecords
    THEN PredictBalanceWithWeightedAverage(accts, txs, t, cardNumber, daysInFuture)
  ELSE RegressionOverDays(accts, txs, t, cardNumber, daysInFuture)

PredictBalanceWithRegression(accts, txs, t, cardNumber, daysInFuture) ==
  IF ~AccountExists(accts, cardNumber) THEN Whole(0)
  ELSE IF Len(GetTransactionsForCard(txs, cardNumber)) < MinRegressionRecords
    THEN Whole(accts[cardNumber].balance)
  ELSE RegressionOverDays(accts, txs, t, cardNumber, daysInFuture)

(* predictBalanceMultiDays: the result and the map it leaves in             *)
(* outPredictions, which the caller hands in empty; days <= 0 are skipped.  *)
PredictBalanceMultiDays(accts, txs, t, cardNumber, days) ==
  IF cardNumber = NoCard THEN [result |-> "EmptyCard", predictions |-> <<>>]
  ELSE IF days = <<>> THEN [result |-> "NoDays", predictions |-> <<>>]
  ELSE IF ~AccountExists(accts, cardNumber) THEN [result |-> "NotFound", predictions |-> <<>>]
  ELSE [result |-> "OK",
        predictions |-> [day \in {days[i] : i \in {j \in 1..Len(days) : days[j] > 0}} |->
                           PredictBalance(accts, txs, t, cardNumber, day)]]

(* Mutant: only the dates that have a record of the card get an entry.     *)
GetAccountTrend_ActiveDaysOnly(accts, txs, t, cardNumber, days) ==
  LET all == InDates(GetTransactionsForCard(txs, cardNumber), DateOf(t) - days + 1, DateOf(t))
      dates == {DateOf(all[i].timestamp) : i \in 1..Len(all)}
      on(date, kind(_)) ==
        SelectSeq(all, LAMBDA tx : DateOf(tx.timestamp) = date /\ kind(tx)) IN
  [result |-> "OK",
   income |-> [date \in dates |-> SumSigned(on(date, IsIncome))],
   expense |-> [date \in dates |-> -SumSigned(on(date, IsExpense))]]

(* getAccountTrend: the result and the two maps it leaves in                *)
(* outIncomeTrend and outExpenseTrend, which the caller hands in empty.     *)
GetAccountTrend(accts, txs, t, cardNumber, days) ==
  LET all == GetTransactionsForCard(txs, cardNumber)
      endDate == DateOf(t)
      startDate == endDate - days + 1
      on(date, kind(_)) ==
        SelectSeq(all, LAMBDA tx : DateOf(tx.timestamp) = date /\ kind(tx))
      total(s) == SumSigned(s)
      untouched(result) == [result |-> result, income |-> <<>>, expense |-> <<>>] IN
  IF cardNumber = NoCard THEN untouched("EmptyCard")
  ELSE IF days <= 0 THEN untouched("BadDays")
  ELSE IF ~AccountExists(accts, cardNumber) THEN untouched("NotFound")
  ELSE IF all = <<>> THEN untouched("NoTransactions")
  ELSE [result |-> "OK",
        income |-> [date \in startDate..endDate |-> total(on(date, IsIncome))],
        expense |-> [date \in startDate..endDate |-> -total(on(date, IsExpense))]]

----------------------------------------------------------------------------
(* State machine.  last is the most recent call and its result; streak[c]  *)
(* counts the wrong-PIN attempts made on card c, while it was not          *)
(* permanently locked, since its failure count was last cleared (by a      *)
(* successful login or by an administrator), up to MAX_FAILED_ATTEMPTS.    *)

Procs == {1, 2, 3}

Call(op, cardNumber, result) == [op |-> op, card |-> cardNumber, result |-> result]

(* No account read yet.                                                    *)
NoAccount == [cardNumber |-> NoCard]

Idle ==
  /\ pc = [p \in Procs |-> "idle"]
  /\ local = [p \in Procs |-> NoAccount]
  /\ arg = [p \in Procs |-> 0]
  /\ res = [p \in Procs |-> "none"]
  /\ raceInit = 0

(* The view model's session: m_isLoggedIn, m_isAdmin and m_cardNumber.      *)
LoggedOut == [isLoggedIn |-> FALSE, isAdmin |-> FALSE, cardNumber |-> NoCard]

(* What the last query returned to its caller: the query, its arguments and *)
(* the value.  The queries are const member functions; they write reply and *)
(* nothing else.                                                           *)
Reply(op, args, value) == [op |-> op, args |-> args, value |-> value]

NoReply == Reply("none", <<>>, <<>>)

(* No worker moves and no query returns.                                   *)
NoWorkers == UNCHANGED <<pc, local, arg, res, raceInit, reply>>

(* A call made on the services directly: no worker moves, no session       *)
(* changes.                                                                *)
NoRace == NoWorkers /\ UNCHANGED session

InitialAccounts ==
  Put(Put(<<>>, NewAccount(CardA, PinA, "Holder", 100, 100, FALSE, FALSE, <<20>>)),
      NewAccount(AdminCard, PinAdmin, "Holder", 100, 200, FALSE, TRUE, <<21>>))

SecondAccount == NewAccount(CardB, PinB, "Holder", 200, 100, FALSE, FALSE, <<21>>)

Init ==
  /\ accounts \in {InitialAccounts, Put(InitialAccounts, SecondAccount)}
  /\ transactions = <<>>
  /\ now = 0
  /\ last = Call("none", NoCard, "none")
  /\ streak = [c \in Cards |-> 0]
  /\ session = LoggedOut
  /\ reply = NoReply
  /\ Idle

(* The call's effect, as long as the ledger stays within the model's size. *)
ApplyAny(op, cardNumber, r) ==
  /\ Len(r.transactions) <= MaxTx
  /\ accounts' = r.accounts
  /\ transactions' = r.transactions
  /\ last' = Call(op, cardNumber, r.result)

Apply(op, cardNumber, r) ==
  /\ \A c \in DOMAIN r.accounts : r.accounts[c].balance <= MaxBalance
  /\ ApplyAny(op, cardNumber, r)

Withdraw(cardNumber, amount, ok) ==
  /\ Apply("withdraw", cardNumber,
           WithdrawAmount(accounts, transactions, now, cardNumber, amount, ok))
  /\ UNCHANGED <<now, streak>>
  /\ NoRace

Deposit(cardNumber, amount, ok) ==
  /\ Apply("deposit", cardNumber,
           DepositAmount(accounts, transactions, now, cardNumber, amount, ok))
  /\ UNCHANGED <<now, streak>>
  /\ NoRace

Transfer(fromCardNumber, toCardNumber, amount, oks) ==
  /\ Apply("transfer", fromCardNumber,
           TransferAmount(accounts, transactions, now, fromCardNumber, toCardNumber, amount, oks))
  /\ UNCHANGED <<now, streak>>
  /\ NoRace

CreateAccount(cardNumber, pin, holderName, balance, withdrawLimit, isAdmin, salt, ok) ==
  LET r == CreateAccountOp(accounts, transactions, now, cardNumber, pin, holderName,
                           balance, withdrawLimit, isAdmin, salt, ok) IN
  /\ Apply("createAccount", cardNumber, r)
  /\ streak' = IF r.result = "OK" THEN [streak EXCEPT ![cardNumber] = 0] ELSE streak
  /\ UNCHANGED now
  /\ NoRace

UpdateAccount(cardNumber, holderName, balance, withdrawLimit, isLocked, ok) ==
  /\ Apply("updateAccount", cardNumber,
           UpdateAccountOp(accounts, transactions, now, cardNumber, holderName,
                           balance, withdrawLimit, isLocked, ok))
  /\ UNCHANGED <<now, streak>>
  /\ NoRace

(* A login with a PIN that does not match, on an account the validator   *)
(* gets as far as judging (one that exists and is not permanently locked). *)
WrongPinAttempt(cardNumber, pin) ==
  /\ pin # EmptyPin
  /\ AccountExists(accounts, cardNumber)
  /\ ~accounts[cardNumber].isLocked
  /\ ~VerifyPin(accounts[cardNumber], pin)

Login(cardNumber, pin, ok) ==
  LET r == PerformLogin(accounts, transactions, now, cardNumber, pin, ok) IN
  /\ Apply("login", cardNumber, r)
  /\ streak' = IF r.result = "OK" THEN [streak EXCEPT ![cardNumber] = 0]
               ELSE IF WrongPinAttempt(cardNumber, pin) /\ streak[cardNumber] < MAX_FAILED_ATTEMPTS
                 THEN [streak EXCEPT ![cardNumber] = @ + 1]
               ELSE streak
  /\ UNCHANGED now
  /\ NoRace

SetAccountLockStatus(cardNumber, locked, ok) ==
  LET r == SetAccountLockStatusOp(accounts, transactions, now, cardNumber, locked, ok) IN
  /\ Apply("setAccountLockStatus", cardNumber, r)
  /\ streak' = IF r.result = "OK" /\ ~locked THEN [streak EXCEPT ![cardNumber] = 0]
               ELSE streak
  /\ UNCHANGED now
  /\ NoRace

(* The clock moves on.                                                     *)
Tick ==
  /\ now + TickStep <= MaxTime
  /\ now' = now + TickStep
  /\ UNCHANGED <<accounts, transactions, last, streak>>
  /\ NoRace

(* In Spec and SpecLogin the file is writable at every save.               *)
Writable == {TRUE}

SaveOutcomes == [1..3 -> Writable]

(* Requests an administrator submits for createAccount and updateAccount: *)
(* a valid one, and one failing each check on the fields.                 *)
AdminRequests ==
  {[holderName |-> "Holder", balance |-> 100, withdrawLimit |-> 200, isLocked |-> FALSE],
   [holderName |-> "Holder", balance |-> 100, withdrawLimit |-> 200, isLocked |-> TRUE],
   [holderName |-> "", balance |-> 100, withdrawLimit |-> 200, isLocked |-> FALSE],
   [holderName |-> "Holder", balance |-> -100, withdrawLimit |-> 200, isLocked |-> FALSE],
   [holderName |-> "Holder", balance |-> 100, withdrawLimit |-> 0, isLocked |-> FALSE]}

(* createAccount takes no lock flag: a new account is unlocked.            *)
CreateRequests == {q \in AdminRequests : ~q.isLocked}

(* The cards the customer and the administrator operate on; the           *)
(* administrator's own account is the bystander of every operation.        *)
Customers == {CardA, CardB}

Next ==
  \/ \E c \in Customers, a \in Amounts, ok \in Writable : Withdraw(c, a, ok)
  \/ \E c \in Customers, a \in Amounts, ok \in Writable : Deposit(c, a, ok)
  \/ \E c \in Customers, d \in Customers, a \in Amounts, oks \in SaveOutcomes :
       Transfer(c, d, a, oks)
  \/ \E c \in Customers, q \in CreateRequests, s \in Salts, ok \in Writable :
       CreateAccount(c, PinA, q.holderName, q.balance, q.withdrawLimit, FALSE, s, ok)
  \/ \E c \in Customers, q \in AdminRequests, ok \in Writable :
       UpdateAccount(c, q.holderName, q.balance, q.withdrawLimit, q.isLocked, ok)

Spec == Init /\ [][Next]_vars

(* Amounts at the edges of the validators' ranges: below a banknote, and  *)
(* at and above the per-transaction ceiling.  Balances are not capped.     *)
EdgeAmounts == {0, 50, 100, MaxDeposit, MaxDeposit + 1}

WithdrawAny(cardNumber, amount, ok) ==
  /\ ApplyAny("withdraw", cardNumber,
              WithdrawAmount(accounts, transactions, now, cardNumber, amount, ok))
  /\ UNCHANGED <<now, streak>>
  /\ NoRace

DepositAny(cardNumber, amount, ok) ==
  /\ ApplyAny("deposit", cardNumber,
              DepositAmount(accounts, transactions, now, cardNumber, amount, ok))
  /\ UNCHANGED <<now, streak>>
  /\ NoRace

TransferAny(fromCardNumber, toCardNumber, amount, oks) ==
  /\ ApplyAny("transfer", fromCardNumber,
              TransferAmount(accounts, transactions, now, fromCardNumber, toCardNumber,
                             amount, oks))
  /\ UNCHANGED <<now, streak>>
  /\ NoRace

(* A lock set by the administrator before the customer's calls.            *)
LockAny(cardNumber, ok) ==
  /\ ApplyAny("setAccountLockStatus", cardNumber,
              SetAccountLockStatusOp(accounts, transactions, now, cardNumber, TRUE, ok))
  /\ UNCHANGED <<now, streak>>
  /\ NoRace

NextAmounts ==
  \/ \E c \in Customers, a \in EdgeAmounts, ok \in Writable : WithdrawAny(c, a, ok)
  \/ \E c \in Customers, a \in EdgeAmounts, ok \in Writable : DepositAny(c, a, ok)
  \/ \E c \in Customers, d \in Customers, a \in EdgeAmounts, oks \in SaveOutcomes :
       TransferAny(c, d, a, oks)
  \/ \E c \in Customers, ok \in Writable : LockAny(c, ok)

SpecAmounts == Init /\ [][NextAmounts]_vars

(* Logins, the administrator's lock switch and the clock.                  *)
NextLogin ==
  \/ \E c \in Customers, pin \in Pins, ok \in Writable : Login(c, pin, ok)
  \/ \E c \in Customers, k \in BOOLEAN, ok \in Writable : SetAccountLockStatus(c, k, ok)
  \/ Tick

(* The repository holds one customer; the other card is unknown.           *)
InitLogin ==
  /\ Init
  /\ accounts = InitialAccounts

SpecLogin == InitLogin /\ [][NextLogin]_vars

(* PIN changes between logins.                                             *)
PinNew == <<4, 3, 2, 1>>
PinShort == <<1, 2>>
CurrentPins == {PinA, PinNew}
NewPins == {PinNew, PinA, PinShort}
ConfirmPins == {EmptyPin, PinNew, PinA}

ChangePin(cardNumber, currentPin, newPin, confirmPin, oks) ==
  LET r == ChangePinOp(accounts, transactions, now, cardNumber, currentPin, newPin,
                       confirmPin, oks)
      v == ValidateCredentials(accounts, now, cardNumber, currentPin, oks[1])
  IN
  /\ ApplyAny("changePin", cardNumber, r)
  /\ streak' = IF v.result = "OK" THEN [streak EXCEPT ![cardNumber] = 0]
               ELSE IF WrongPinAttempt(cardNumber, currentPin)
                       /\ streak[cardNumber] < MAX_FAILED_ATTEMPTS
                 THEN [streak EXCEPT ![cardNumber] = @ + 1]
               ELSE streak
  /\ UNCHANGED now
  /\ NoRace

NextPin ==
  \/ \E c \in Customers, cur \in CurrentPins, new \in NewPins, confirm \in ConfirmPins,
        oks \in SaveOutcomes : ChangePin(c, cur, new, confirm, oks)
  \/ \E c \in Customers, pin \in CurrentPins, ok \in Writable : Login(c, pin, ok)
  \/ Tick

SpecPin == InitLogin /\ [][NextPin]_vars

(* setPin followed by verifyPin with the same string, on stored accounts.  *)
PinLong == <<1, 2, 3, 4, 5, 6>>
PinTooLong == <<1, 2, 3, 4, 5, 6, 7>>
PinLetter == <<1, 2, 20, 4>>
PinStrings == {PinA, PinNew, PinLong, PinShort, EmptyPin, PinTooLong, PinLetter}

SetPinThenVerify(cardNumber, pin, salt) ==
  LET account == SetPin(accounts[cardNumber], pin, salt) IN
  /\ accounts' = [accounts EXCEPT ![cardNumber] = account]
  /\ last' = Call("setPin", cardNumber, IF VerifyPin(account, pin) THEN "OK" ELSE "WrongPin")
  /\ UNCHANGED <<transactions, now, streak>>
  /\ NoRace

NextSetPin ==
  \E c \in DOMAIN accounts, pin \in PinStrings, salt \in Salts : SetPinThenVerify(c, pin, salt)

SpecSetPin == Init /\ [][NextSetPin]_vars

----------------------------------------------------------------------------
(* The administrator's operations, called on the services.                 *)

DeleteAccount(cardNumber, ok) ==
  /\ Apply("deleteAccount", cardNumber,
           DeleteAccountOp(accounts, transactions, now, cardNumber, ok))
  /\ UNCHANGED <<now, streak>>
  /\ NoRace

DeleteAccountModel(cardNumber, ok) ==
  /\ Apply("deleteAccount", cardNumber,
           DeleteAccountModelOp(accounts, transactions, now, cardNumber, ok))
  /\ UNCHANGED <<now, streak>>
  /\ NoRace

ResetPin(cardNumber, newPin, salt, ok) ==
  LET r == ResetPinOp(accounts, transactions, now, cardNumber, newPin, salt, ok) IN
  /\ Apply("resetPin", cardNumber, r)
  /\ streak' = IF r.result = "OK" THEN [streak EXCEPT ![cardNumber] = 0] ELSE streak
  /\ UNCHANGED now
  /\ NoRace

SetWithdrawLimit(cardNumber, limit, ok) ==
  /\ Apply("setWithdrawLimit", cardNumber,
           SetWithdrawLimitOp(accounts, transactions, now, cardNumber, limit, ok))
  /\ UNCHANGED <<now, streak>>
  /\ NoRace

(* The repository is constructed again from its file.                      *)
Load(salt) ==
  /\ accounts' = LoadAccounts(accounts, salt)
  /\ last' = Call("load", NoCard, "OK")
  /\ UNCHANGED <<transactions, now, streak>>
  /\ NoRace

ResetPins == {PinA, PinShort}
Limits == {0, 200}
FreshSalt == <<20>>

(* The requests that pass the checks on the fields, with and without the   *)
(* lock.                                                                   *)
ValidRequests ==
  {q \in AdminRequests : q.holderName # "" /\ q.balance >= 0 /\ q.withdrawLimit > 0}

ValidCreateRequests == CreateRequests \cap ValidRequests

NextService ==
  \/ \E c \in Cards, q \in ValidCreateRequests, isAdmin \in BOOLEAN, ok \in Writable :
       CreateAccount(c, PinA, q.holderName, q.balance, q.withdrawLimit, isAdmin, FreshSalt, ok)
  \/ \E c \in Cards, q \in ValidRequests, ok \in Writable :
       UpdateAccount(c, q.holderName, q.balance, q.withdrawLimit, q.isLocked, ok)
  \/ \E c \in Cards, ok \in Writable : DeleteAccount(c, ok)
  \/ \E c \in Cards, ok \in Writable : DeleteAccountModel(c, ok)
  \/ \E c \in Cards, k \in BOOLEAN, ok \in Writable : SetAccountLockStatus(c, k, ok)
  \/ \E c \in Cards, pin \in ResetPins, ok \in Writable : ResetPin(c, pin, FreshSalt, ok)
  \/ \E c \in Cards, limit \in Limits, ok \in Writable : SetWithdrawLimit(c, limit, ok)
  \/ Load(FreshSalt)

SpecService == Init /\ [][NextService]_vars

----------------------------------------------------------------------------
(* AccountViewModel: the operations of the screen, run in the session.     *)
(* m_accountModel hands each call on to the service of the same name.      *)

(* Mutant: being logged in is enough.                                      *)
HasAdminSession_LoginOnly(s) == s.isLoggedIn

HasAdminSession(s) == s.isLoggedIn /\ s.isAdmin

(* An administrator's call: the session's flags, then validateAdminOperation *)
(* on the session's card, then the service.                                *)
AdminCall(r) ==
  IF ~HasAdminSession(session) THEN Outcome("PermissionDenied", accounts, transactions)
  ELSE IF ValidateAdminOperation(accounts, session.cardNumber) # "OK"
    THEN Outcome(ValidateAdminOperation(accounts, session.cardNumber), accounts, transactions)
  ELSE r

SessionKept ==
  /\ UNCHANGED <<now, streak, session>>
  /\ NoWorkers

(* loginWithCard: setCardNumber, validateCredentials, performLogin.        *)
VmLogin(cardNumber, pin, oks) ==
  LET v == ValidateCredentials(accounts, now, cardNumber, pin, oks[1])
      r == IF v.result # "OK" THEN Outcome(v.result, v.accounts, transactions)
           ELSE PerformLogin(v.accounts, transactions, now, cardNumber, pin, oks[2])
  IN
  /\ ApplyAny("login", cardNumber, r)
  /\ session' = IF r.result = "OK"
                  THEN [isLoggedIn |-> TRUE, isAdmin |-> r.accounts[cardNumber].isAdmin,
                        cardNumber |-> cardNumber]
                  ELSE [session EXCEPT !.cardNumber = cardNumber]
  /\ UNCHANGED <<now, streak>>
  /\ NoWorkers

VmAdminLogin(cardNumber, pin, ok) ==
  LET r == PerformAdminLogin(accounts, transactions, now, cardNumber, pin, ok) IN
  /\ ApplyAny("adminLogin", cardNumber, r)
  /\ session' = IF r.result = "OK"
                  THEN [isLoggedIn |-> TRUE, isAdmin |-> TRUE, cardNumber |-> cardNumber]
                  ELSE [session EXCEPT !.cardNumber = cardNumber]
  /\ UNCHANGED <<now, streak>>
  /\ NoWorkers

VmLogout ==
  /\ session.isLoggedIn
  /\ session' = LoggedOut
  /\ last' = Call("logout", session.cardNumber, "OK")
  /\ UNCHANGED <<accounts, transactions, now, streak>>
  /\ NoWorkers

VmGetAllAccounts ==
  /\ ApplyAny("getAllAccounts", NoCard,
              IF ~HasAdminSession(session)
                THEN Outcome("PermissionDenied", accounts, transactions)
                ELSE Outcome("OK", accounts, transactions))
  /\ SessionKept

(* createAccount locks the new account afterwards when asked to, and does  *)
(* not look at the result of that call.                                    *)
VmCreateAccount(cardNumber, pin, holderName, balance, withdrawLimit, isLocked, isAdmin, salt, oks) ==
  LET v == ValidateCreateAccount(accounts, cardNumber, pin, holderName, balance, withdrawLimit)
      created == CreateAccountOp(accounts, transactions, now, cardNumber, pin, holderName,
                                 balance, withdrawLimit, isAdmin, salt, oks[1])
      locked == SetAccountLockStatusOp(created.accounts, created.transactions, now,
                                       cardNumber, TRUE, oks[2])
  IN
  /\ ApplyAny("createAccount", cardNumber,
       IF ~HasAdminSession(session) THEN Outcome("PermissionDenied", accounts, transactions)
       ELSE IF v # "OK" THEN Outcome(v, accounts, transactions)
       ELSE IF created.result = "OK" /\ isLocked
         THEN Outcome("OK", locked.accounts, locked.transactions)
       ELSE created)
  /\ SessionKept

VmUpdateAccount(cardNumber, holderName, balance, withdrawLimit, isLocked, ok) ==
  /\ ApplyAny("updateAccount", cardNumber,
              AdminCall(UpdateAccountOp(accounts, transactions, now, cardNumber, holderName,
                                        balance, withdrawLimit, isLocked, ok)))
  /\ SessionKept

(* Mutant: the session's own card is not compared.                         *)
OwnAccountGuard_Absent(cardNumber, r) == r

OwnAccountGuard(cardNumber, r) ==
  IF cardNumber = session.cardNumber THEN Outcome("OwnAccount", accounts, transactions)
  ELSE r

VmDeleteAccount(cardNumber, ok) ==
  /\ ApplyAny("deleteAccount", cardNumber,
              AdminCall(OwnAccountGuard(cardNumber,
                          DeleteAccountOp(accounts, transactions, now, cardNumber, ok))))
  /\ SessionKept

(* The same call when m_accountModel deletes by its own rule.              *)
VmDeleteAccountModel(cardNumber, ok) ==
  /\ ApplyAny("deleteAccount", cardNumber,
              AdminCall(OwnAccountGuard(cardNumber,
                          DeleteAccountModelOp(accounts, transactions, now, cardNumber, ok))))
  /\ SessionKept

VmResetAccountPin(cardNumber, newPin, salt, ok) ==
  /\ ApplyAny("resetAccountPin", cardNumber,
              AdminCall(ResetPinOp(accounts, transactions, now, cardNumber, newPin, salt, ok)))
  /\ SessionKept

VmSetAccountLockStatus(cardNumber, locked, ok) ==
  /\ ApplyAny("setAccountLockStatus", cardNumber,
              AdminCall(SetAccountLockStatusOp(accounts, transactions, now, cardNumber,
                                               locked, ok)))
  /\ SessionKept

VmSetWithdrawLimit(cardNumber, limit, ok) ==
  /\ ApplyAny("setWithdrawLimit", cardNumber,
              AdminCall(SetWithdrawLimitOp(accounts, transactions, now, cardNumber, limit, ok)))
  /\ SessionKept

(* withdraw, deposit and transfer of the view model: the login flag, the   *)
(* validator on m_cardNumber, then the service on m_cardNumber.            *)
VmWithdraw(amount, ok) ==
  LET v == ValidateWithdrawal(accounts, now, session.cardNumber, amount) IN
  /\ Apply("withdraw", session.cardNumber,
           IF ~session.isLoggedIn THEN Outcome("NotLoggedIn", accounts, transactions)
           ELSE IF v # "OK" THEN Outcome(v, accounts, transactions)
           ELSE WithdrawAmount(accounts, transactions, now, session.cardNumber, amount, ok))
  /\ SessionKept

VmDeposit(amount, ok) ==
  LET v == ValidateDeposit(accounts, now, session.cardNumber, amount) IN
  /\ Apply("deposit", session.cardNumber,
           IF ~session.isLoggedIn THEN Outcome("NotLoggedIn", accounts, transactions)
           ELSE IF v # "OK" THEN Outcome(v, accounts, transactions)
           ELSE DepositAmount(accounts, transactions, now, session.cardNumber, amount, ok))
  /\ SessionKept

VmTransfer(targetCard, amount, oks) ==
  LET v == ValidateTransfer(accounts, now, session.cardNumber, targetCard, amount) IN
  /\ Apply("transfer", session.cardNumber,
           IF ~session.isLoggedIn THEN Outcome("NotLoggedIn", accounts, transactions)
           ELSE IF v # "OK" THEN Outcome(v, accounts, transactions)
           ELSE TransferAmount(accounts, transactions, now, session.cardNumber, targetCard,
                               amount, oks))
  /\ SessionKept

(* The program is started again: the repository loads its file, the view   *)
(* model starts logged out.                                                *)
Restart(salt) ==
  /\ accounts' = LoadAccounts(accounts, salt)
  /\ session' = LoggedOut
  /\ last' = Call("load", NoCard, "OK")
  /\ UNCHANGED <<transactions, now, streak>>
  /\ NoWorkers

(* The people at the screen know their PINs.                               *)
Logins == {<<CardA, PinA>>, <<AdminCard, PinAdmin>>}
AdminOps == {"getAllAccounts", "createAccount", "updateAccount", "deleteAccount",
             "resetAccountPin", "setAccountLockStatus", "setWithdrawLimit"}

NextAdmin ==
  \/ \E l \in Logins, oks \in SaveOutcomes : VmLogin(l[1], l[2], oks)
  \/ \E l \in Logins, ok \in Writable : VmAdminLogin(l[1], l[2], ok)
  \/ VmLogout
  \/ VmGetAllAccounts
  \/ \E c \in Cards, q \in ValidRequests, isAdmin \in BOOLEAN, oks \in SaveOutcomes :
       VmCreateAccount(c, PinA, q.holderName, q.balance, q.withdrawLimit, q.isLocked,
                       isAdmin, FreshSalt, oks)
  \/ \E c \in Cards, q \in ValidRequests, ok \in Writable :
       VmUpdateAccount(c, q.holderName, q.balance, q.withdrawLimit, q.isLocked, ok)
  \/ \E c \in Cards, ok \in Writable : VmDeleteAccount(c, ok)
  \/ \E c \in Cards, ok \in Writable : VmDeleteAccountModel(c, ok)
  \/ \E c \in Customers, pin \in ResetPins, ok \in Writable :
       VmResetAccountPin(c, pin, FreshSalt, ok)
  \/ \E c \in Cards, k \in BOOLEAN, ok \in Writable : VmSetAccountLockStatus(c, k, ok)
  \/ \E c \in Cards, limit \in Limits, ok \in Writable : VmSetWithdrawLimit(c, limit, ok)
  \/ Restart(FreshSalt)

SpecAdmin == InitLogin /\ [][NextAdmin]_vars

(* The customers' screen.  The customer of CardA knows that card's PIN and  *)
(* types it for either card; the administrator logs in, and the customer   *)
(* tries the administrator's entry; logout; the money calls of the         *)
(* session.                                                                *)
InitSession == Init /\ accounts = Put(InitialAccounts, SecondAccount)

NextSession ==
  \/ \E c \in Customers, oks \in SaveOutcomes : VmLogin(c, PinA, oks)
  \/ \E l \in Logins, ok \in Writable : VmAdminLogin(l[1], l[2], ok)
  \/ VmLogout
  \/ \E ok \in Writable : VmWithdraw(100, ok)
  \/ \E ok \in Writable : VmDeposit(100, ok)
  \/ \E d \in Customers, oks \in SaveOutcomes : VmTransfer(d, 100, oks)

SpecSession == InitSession /\ [][NextSession]_vars

----------------------------------------------------------------------------
(* Concurrent calls.  The services take no lock, so calls running at the   *)
(* same time interleave between their statements.  pc[p] is where call p   *)
(* stands, arg[p] its amount, local[p] the Account copy it holds (the      *)
(* value findByCardNumber returned), res[p] its result; raceInit is the    *)
(* balance before the calls began.                                         *)

Workers == {1, 2}

RaceBalances == {100, 200, 300}

RaceAmounts == {100, 200}

Goto(p, label) == pc' = [pc EXCEPT ![p] = label]

Return(p, result) == res' = [res EXCEPT ![p] = result] /\ Goto(p, "done")

(* Two withdrawAmount calls on CardA.                                      *)
InitWithdrawRace ==
  /\ \E b \in RaceBalances :
       /\ accounts = Put(InitialAccounts,
                         NewAccount(CardA, PinA, "Holder", b, 200, FALSE, FALSE, <<20>>))
       /\ raceInit = b
  /\ transactions = <<>>
  /\ now = 0
  /\ last = Call("none", NoCard, "none")
  /\ streak = [c \in Cards |-> 0]
  /\ session = LoggedOut
  /\ reply = NoReply
  /\ pc = [p \in Procs |-> IF p \in Workers THEN "validate" ELSE "idle"]
  /\ local = [p \in Procs |-> NoAccount]
  /\ arg \in {f \in [Procs -> RaceAmounts \cup {0}] :
                /\ \A p \in Workers : f[p] \in RaceAmounts
                /\ \A p \in Procs \ Workers : f[p] = 0}
  /\ res = [p \in Procs |-> "none"]

WithdrawValidate(p) ==
  /\ pc[p] = "validate"
  /\ LET v == ValidateWithdrawal(accounts, now, CardA, arg[p]) IN
       IF v # "OK" THEN Return(p, v) ELSE Goto(p, "read") /\ UNCHANGED res
  /\ UNCHANGED <<accounts, transactions, now, last, streak, session, reply, local, arg, raceInit>>

WithdrawRead(p) ==
  /\ pc[p] = "read"
  /\ local' = [local EXCEPT ![p] = accounts[CardA]]
  /\ Goto(p, "compute")
  /\ UNCHANGED <<accounts, transactions, now, last, streak, session, reply, arg, res, raceInit>>

WithdrawCompute(p) ==
  /\ pc[p] = "compute"
  /\ local' = [local EXCEPT ![p].balance = @ - arg[p]]
  /\ Goto(p, "save")
  /\ UNCHANGED <<accounts, transactions, now, last, streak, session, reply, arg, res, raceInit>>

WithdrawSave(p, ok) ==
  /\ pc[p] = "save"
  /\ LET saved == SaveAccount(accounts, local[p], ok) IN
       /\ accounts' = saved.accounts
       /\ IF ~saved.success THEN Return(p, saved.result)
          ELSE Goto(p, "append") /\ UNCHANGED res
  /\ UNCHANGED <<transactions, now, last, streak, session, reply, local, arg, raceInit>>

WithdrawAppend(p) ==
  /\ pc[p] = "append"
  /\ transactions' = RecordTransaction(transactions, CardA, "Withdrawal", arg[p],
                                       local[p].balance, NoCard, now)
  /\ Return(p, "OK")
  /\ UNCHANGED <<accounts, now, last, streak, session, reply, local, arg, raceInit>>

NextWithdrawRace ==
  \/ \E p \in Workers : WithdrawValidate(p)
  \/ \E p \in Workers : WithdrawRead(p)
  \/ \E p \in Workers : WithdrawCompute(p)
  \/ \E p \in Workers, ok \in Writable : WithdrawSave(p, ok)
  \/ \E p \in Workers : WithdrawAppend(p)

SpecWithdrawRace == InitWithdrawRace /\ [][NextWithdrawRace]_vars

(* Three validateCredentials calls on CardA, each with a wrong PIN.        *)
InitLoginRace ==
  /\ \E k \in BOOLEAN :
       accounts = IF k THEN Put(InitialAccounts, SecondAccount) ELSE InitialAccounts
  /\ transactions = <<>>
  /\ now = 0
  /\ last = Call("none", NoCard, "none")
  /\ streak = [c \in Cards |-> 0]
  /\ session = LoggedOut
  /\ reply = NoReply
  /\ pc = [p \in Procs |-> "find"]
  /\ local = [p \in Procs |-> NoAccount]
  /\ arg = [p \in Procs |-> 0]
  /\ res = [p \in Procs |-> "none"]
  /\ raceInit = 0

LoginFind(p) ==
  /\ pc[p] = "find"
  /\ local' = [local EXCEPT ![p] = accounts[CardA]]
  /\ IF accounts[CardA].isLocked THEN Return(p, "PermanentlyLocked")
     ELSE IF IsTemporarilyLocked(accounts[CardA], now) THEN Return(p, "TemporarilyLocked")
     ELSE IF VerifyPin(accounts[CardA], PinAdmin) THEN Return(p, "OK")
     ELSE Goto(p, "increment") /\ UNCHANGED res
  /\ UNCHANGED <<accounts, transactions, now, last, streak, session, reply, arg, raceInit>>

LoginIncrement(p) ==
  /\ pc[p] = "increment"
  /\ local' = [local EXCEPT ![p].failedLoginAttempts = @ + 1, ![p].lastFailedLogin = now]
  /\ Goto(p, "threshold")
  /\ UNCHANGED <<accounts, transactions, now, last, streak, session, reply, arg, res, raceInit>>

LoginThreshold(p) ==
  /\ pc[p] = "threshold"
  /\ local' = IF local[p].failedLoginAttempts >= MAX_FAILED_ATTEMPTS
                THEN [local EXCEPT ![p].temporaryLockTime = now + TEMP_LOCK_DURATION]
                ELSE local
  /\ Goto(p, "save")
  /\ UNCHANGED <<accounts, transactions, now, last, streak, session, reply, arg, res, raceInit>>

LoginSave(p, ok) ==
  /\ pc[p] = "save"
  /\ accounts' = SaveAccount(accounts, local[p], ok).accounts
  /\ Return(p, IF local[p].failedLoginAttempts >= MAX_FAILED_ATTEMPTS
                 THEN "WrongPinLocked" ELSE "WrongPin")
  /\ UNCHANGED <<transactions, now, last, streak, session, reply, local, arg, raceInit>>

NextLoginRace ==
  \/ \E p \in Procs : LoginFind(p)
  \/ \E p \in Procs : LoginIncrement(p)
  \/ \E p \in Procs : LoginThreshold(p)
  \/ \E p \in Procs, ok \in Writable : LoginSave(p, ok)

SpecLoginRace == InitLoginRace /\ [][NextLoginRace]_vars

----------------------------------------------------------------------------
(* The ledger over a longer history: deposits, withdrawals and transfers   *)
(* of the customers, deletion of their accounts, and the queries of the    *)
(* ledger, with the clock moving in between.                               *)

MaxLedger == 3

Counts == {0, MaxLedger - 1, MaxLedger + 1}

MaxLedgerTime == 10

ApplyLedger(op, cardNumber, r) ==
  /\ Len(r.transactions) <= MaxLedger
  /\ \A c \in DOMAIN r.accounts : r.accounts[c].balance <= MaxBalance
  /\ accounts' = r.accounts
  /\ transactions' = r.transactions
  /\ last' = Call(op, cardNumber, r.result)
  /\ UNCHANGED <<now, streak>>
  /\ NoRace

LedgerDeposit(cardNumber, amount) ==
  /\ amount > 0
  /\ ApplyLedger("deposit", cardNumber,
                 DepositAmount(accounts, transactions, now, cardNumber, amount, TRUE))

LedgerTransfer(fromCardNumber, toCardNumber, amount) ==
  /\ amount > 0
  /\ ApplyLedger("transfer", fromCardNumber,
                 TransferAmount(accounts, transactions, now, fromCardNumber, toCardNumber,
                                amount, [i \in 1..3 |-> TRUE]))

LedgerDeleteAccount(cardNumber) ==
  /\ AccountExists(accounts, cardNumber)
  /\ ApplyLedger("deleteAccount", cardNumber,
                 DeleteAccountOp(accounts, transactions, now, cardNumber, TRUE))

GetRecentTransactionsCall(cardNumber, count) ==
  /\ \E value \in GetRecentTransactions(transactions, cardNumber, count) :
       reply' = Reply("getRecentTransactions", <<cardNumber, count>>, value)
  /\ UNCHANGED <<accounts, transactions, now, last, streak, session>>
  /\ UNCHANGED <<pc, local, arg, res, raceInit>>

LedgerTick ==
  /\ now < MaxLedgerTime
  /\ Tick

NextLedger ==
  \/ \E c \in Customers : LedgerDeposit(c, 100)
  \/ \E c, d \in Customers : LedgerTransfer(c, d, 100)
  \/ \E c \in Customers : LedgerDeleteAccount(c)
  \/ \E count \in Counts : GetRecentTransactionsCall(CardA, count)
  \/ LedgerTick

InitLedger == Init /\ accounts = Put(InitialAccounts, SecondAccount)

SpecLedger == InitLedger /\ [][NextLedger]_vars

----------------------------------------------------------------------------
(* The repository called directly through IAccountRepository: saveAccount  *)
(* with accounts of every shape and deleteAccount, on a file that can or   *)
(* cannot be written.                                                      *)

HolderNames == {"", "Holder"}

Balances == {-100, 0, 100}

WithdrawLimits == {-100, 0, 100}

SaveAccountCall(cardNumber, holderName, balance, withdrawLimit, ok) ==
  LET account == NewAccount(cardNumber, PinA, holderName, balance, withdrawLimit,
                            FALSE, FALSE, FreshSalt)
      saved == SaveAccount(accounts, account, ok) IN
  /\ accounts' = saved.accounts
  /\ last' = Call("saveAccount", cardNumber, saved.result)
  /\ UNCHANGED <<transactions, now, streak>>
  /\ NoRace

DeleteAccountCall(cardNumber, ok) ==
  LET deleted == DeleteFromRepository(accounts, cardNumber, ok) IN
  /\ accounts' = deleted.accounts
  /\ last' = Call("deleteAccount", cardNumber, deleted.result)
  /\ UNCHANGED <<transactions, now, streak>>
  /\ NoRace

NextRepository ==
  \/ \E c \in Customers, holderName \in HolderNames, balance \in Balances,
        withdrawLimit \in WithdrawLimits, ok \in BOOLEAN :
       SaveAccountCall(c, holderName, balance, withdrawLimit, ok)
  \/ \E c \in Customers, ok \in BOOLEAN : DeleteAccountCall(c, ok)

SpecRepository == Init /\ [][NextRepository]_vars

----------------------------------------------------------------------------
(* The validator called on its own, as the view model does before it hands *)
(* a request to a service, between logins, lock changes and ticks of the   *)
(* clock that bring the accounts into every lock state.                    *)

(* Mutant: the check saves the accounts it looked at with their lock and   *)
(* failure counters cleared.                                               *)
Checked_CountersSaved(accts, result) ==
  [result |-> result,
   accounts |-> [c \in DOMAIN accts |->
                   [ResetFailedLoginAttempts(accts[c]) EXCEPT !.isLocked = FALSE]]]

(* A check that reads the repository through findByCardNumber and          *)
(* accountExists, which hand out copies, and calls saveAccount nowhere:    *)
(* its result, and the repository it leaves behind.                        *)
Checked(accts, result) == [result |-> result, accounts |-> accts]

ValidatorCall(op, args, r) ==
  /\ accounts' = r.accounts
  /\ reply' = Reply(op, args, r.result)
  /\ UNCHANGED <<transactions, now, last, streak, session>>
  /\ UNCHANGED <<pc, local, arg, res, raceInit>>

ValidateWithdrawalCall(cardNumber, amount) ==
  /\ ValidatorCall("validateWithdrawal", <<cardNumber, amount>>,
                   Checked(accounts, ValidateWithdrawal(accounts, now, cardNumber, amount)))

ValidateDepositCall(cardNumber, amount) ==
  /\ ValidatorCall("validateDeposit", <<cardNumber, amount>>,
                   Checked(accounts, ValidateDeposit(accounts, now, cardNumber, amount)))

ValidateTransferCall(fromCardNumber, toCardNumber, amount) ==
  /\ ValidatorCall("validateTransfer", <<fromCardNumber, toCardNumber, amount>>,
                   Checked(accounts, ValidateTransfer(accounts, now, fromCardNumber,
                                                      toCardNumber, amount)))

ValidateCreateAccountCall(cardNumber, pin, holderName, balance, withdrawLimit) ==
  /\ ValidatorCall("validateCreateAccount", <<cardNumber, holderName, balance, withdrawLimit>>,
                   Checked(accounts, ValidateCreateAccount(accounts, cardNumber, pin, holderName,
                                                           balance, withdrawLimit)))

ValidateUpdateAccountCall(cardNumber, holderName, balance, withdrawLimit) ==
  /\ ValidatorCall("validateUpdateAccount", <<cardNumber, holderName, balance, withdrawLimit>>,
                   Checked(accounts, ValidateUpdateAccount(accounts, cardNumber, holderName,
                                                           balance, withdrawLimit)))

ValidateAdminOperationCall(cardNumber) ==
  /\ ValidatorCall("validateAdminOperation", <<cardNumber>>,
                   Checked(accounts, ValidateAdminOperation(accounts, cardNumber)))

ValidateTargetAccountCall(targetCardNumber) ==
  /\ ValidatorCall("validateTargetAccount", <<targetCardNumber>>,
                   Checked(accounts, ValidateTargetAccount(accounts, targetCardNumber)))

ValidatedAmounts == {0, 100}

ValidatedRequests == {q \in CreateRequests : q.balance >= 0 /\ q.withdrawLimit > 0}

ValidatorCalls ==
  \/ \E amount \in ValidatedAmounts : ValidateWithdrawalCall(CardA, amount)
  \/ \E amount \in ValidatedAmounts : ValidateDepositCall(CardA, amount)
  \/ \E d \in {CardA, AdminCard}, amount \in ValidatedAmounts :
       ValidateTransferCall(CardA, d, amount)
  \/ \E c \in Customers, q \in ValidatedRequests :
       ValidateCreateAccountCall(c, PinA, q.holderName, q.balance, q.withdrawLimit)
  \/ \E c \in Customers, q \in ValidatedRequests :
       ValidateUpdateAccountCall(c, q.holderName, q.balance, q.withdrawLimit)
  \/ \E c \in Cards : ValidateAdminOperationCall(c)
  \/ \E c \in Cards : ValidateTargetAccountCall(c)

NextValidator ==
  \/ \E pin \in {PinA, PinB} : Login(CardA, pin, TRUE)
  \/ \E k \in BOOLEAN : SetAccountLockStatus(CardA, k, TRUE)
  \/ Tick
  \/ ValidatorCalls

SpecValidator == InitLogin /\ [][NextValidator]_vars

----------------------------------------------------------------------------
(* The ledger called directly, with a file that can or cannot be written.  *)

RecordedTypes == {"Deposit", "Withdrawal"}

RecordTransactionCall(cardNumber, type, amount, writable) ==
  LET added == AddTransaction(transactions,
                              CreateTransaction(cardNumber, type, amount, amount, NoCard, now),
                              writable) IN
  /\ Len(added.transactions) <= MaxLedger
  /\ transactions' = added.transactions
  /\ reply' = Reply("recordTransaction", <<cardNumber, type, writable>>, added.returned)
  /\ UNCHANGED <<accounts, now, last, streak, session>>
  /\ UNCHANGED <<pc, local, arg, res, raceInit>>

GetTransactionsForCardCall(cardNumber) ==
  /\ reply' = Reply("getTransactionsForCard", <<cardNumber>>,
                    GetTransactionsForCard(transactions, cardNumber))
  /\ UNCHANGED <<accounts, transactions, now, last, streak, session>>
  /\ UNCHANGED <<pc, local, arg, res, raceInit>>

NextSink ==
  \/ \E c \in Customers, type \in RecordedTypes, writable \in BOOLEAN :
       RecordTransactionCall(c, type, 100, writable)
  \/ \E c \in Customers : GetTransactionsForCardCall(c)
  \/ LedgerTick

SpecSink == InitLedger /\ [][NextSink]_vars

----------------------------------------------------------------------------
(* The analytics over a history that grows by deposits and withdrawals on  *)
(* one card while the days pass.  reply is what the call just made         *)
(* returned: a deposit, a withdrawal, a transfer, an administrative call   *)
(* or a new day clears it.                                                 *)

MaxHistory == 5

MaxDays == 1

ApplyHistory(op, cardNumber, r) ==
  /\ Len(r.transactions) <= MaxHistory
  /\ \A c \in DOMAIN r.accounts : r.accounts[c].balance <= MaxBalance
  /\ accounts' = r.accounts
  /\ transactions' = r.transactions
  /\ last' = Call(op, cardNumber, r.result)
  /\ reply' = NoReply
  /\ UNCHANGED <<now, streak, session>>
  /\ UNCHANGED <<pc, local, arg, res, raceInit>>

HistoryDeposit(cardNumber, amount) ==
  /\ amount > 0
  /\ ApplyHistory("deposit", cardNumber,
                  DepositAmount(accounts, transactions, now, cardNumber, amount, TRUE))

HistoryWithdraw(cardNumber, amount) ==
  /\ amount > 0
  /\ ApplyHistory("withdraw", cardNumber,
                  WithdrawAmount(accounts, transactions, now, cardNumber, amount, TRUE))

HistorySetWithdrawLimit(cardNumber, limit) ==
  /\ limit > 0
  /\ ApplyHistory("setWithdrawLimit", cardNumber,
                  SetWithdrawLimitOp(accounts, transactions, now, cardNumber, limit, TRUE))

HistoryTransfer(fromCardNumber, toCardNumber, amount) ==
  /\ amount > 0
  /\ ApplyHistory("transfer", fromCardNumber,
                  TransferAmount(accounts, transactions, now, fromCardNumber, toCardNumber,
                                 amount, [i \in 1..3 |-> TRUE]))

NextDay ==
  /\ DateOf(now) < MaxDays
  /\ now' = now + DayLength
  /\ reply' = NoReply
  /\ UNCHANGED <<accounts, transactions, last, streak, session>>
  /\ UNCHANGED <<pc, local, arg, res, raceInit>>

(* Mutant: the query leaves a BalanceInquiry record of its card.           *)
Queried_InquiryRecorded(accts, txs, t, cardNumber, value) ==
  [value |-> value, accounts |-> accts,
   transactions |-> RecordTransaction(txs, cardNumber, "BalanceInquiry", 0, 0, NoCard, t)]

(* A const query of the service: it reads the repository through           *)
(* findByCardNumber and accountExists and the ledger through               *)
(* getTransactionsForCard, which hand out copies.  Its value, and the      *)
(* repository and ledger it leaves behind.                                 *)
Queried(accts, txs, t, cardNumber, value) ==
  [value |-> value, accounts |-> accts, transactions |-> txs]

AnalyticsCall(op, args, r) ==
  /\ accounts' = r.accounts
  /\ transactions' = r.transactions
  /\ reply' = Reply(op, args, r.value)
  /\ UNCHANGED <<now, last, streak, session>>
  /\ UNCHANGED <<pc, local, arg, res, raceInit>>

PredictBalanceCall(cardNumber, daysInFuture) ==
  /\ AnalyticsCall("predictBalance", <<cardNumber, daysInFuture>>,
                   Queried(accounts, transactions, now, cardNumber,
                           PredictBalance(accounts, transactions, now, cardNumber,
                                          daysInFuture)))

PredictBalanceWithWeightedAverageCall(cardNumber, daysInFuture) ==
  /\ AnalyticsCall("predictBalanceWithWeightedAverage", <<cardNumber, daysInFuture>>,
                   Queried(accounts, transactions, now, cardNumber,
                           PredictBalanceWithWeightedAverage(accounts, transactions, now,
                                                             cardNumber, daysInFuture)))

PredictBalanceWithRegressionCall(cardNumber, daysInFuture) ==
  /\ AnalyticsCall("predictBalanceWithRegression", <<cardNumber, daysInFuture>>,
                   Queried(accounts, transactions, now, cardNumber,
                           PredictBalanceWithRegression(accounts, transactions, now,
                                                        cardNumber, daysInFuture)))

PredictBalanceMultiDaysCall(cardNumber, days) ==
  /\ AnalyticsCall("predictBalanceMultiDays", <<cardNumber, days>>,
                   Queried(accounts, transactions, now, cardNumber,
                           PredictBalanceMultiDays(accounts, transactions, now,
                                                   cardNumber, days)))

GetAccountTrendCall(cardNumber, days) ==
  /\ AnalyticsCall("getAccountTrend", <<cardNumber, days>>,
                   Queried(accounts, transactions, now, cardNumber,
                           GetAccountTrend(accounts, transactions, now, cardNumber, days)))

GetTransactionFrequencyCall(cardNumber, days) ==
  /\ AnalyticsCall("getTransactionFrequency", <<cardNumber, days>>,
                   Queried(accounts, transactions, now, cardNumber,
                           GetTransactionFrequency(accounts, transactions, now,
                                                   cardNumber, days)))

Horizons == {30}

TrendDays == {1, 2}

DayLists == {<<1, 0, 30>>}

NextAnalytics ==
  \/ HistoryDeposit(CardA, 200)
  \/ HistoryWithdraw(CardA, 100)
  \/ NextDay
  \/ \E daysInFuture \in Horizons : PredictBalanceCall(CardA, daysInFuture)
  \/ \E daysInFuture \in Horizons : PredictBalanceWithWeightedAverageCall(CardA, daysInFuture)
  \/ \E daysInFuture \in Horizons : PredictBalanceWithRegressionCall(CardA, daysInFuture)
  \/ \E days \in DayLists : PredictBalanceMultiDaysCall(CardA, days)
  \/ \E days \in TrendDays : GetAccountTrendCall(CardA, days)
  \/ \E days \in TrendDays : GetTransactionFrequencyCall(CardA, days)

SpecAnalytics == InitLogin /\ [][NextAnalytics]_vars

(* The trend over histories with records of every kind: deposits,          *)
(* withdrawals, transfers and the records of administrative calls.         *)
NextTrend ==
  \/ HistoryDeposit(CardA, 100)
  \/ HistoryWithdraw(CardA, 100)
  \/ HistoryTransfer(CardA, AdminCard, 100)
  \/ HistorySetWithdrawLimit(CardA, 100)
  \/ NextDay
  \/ \E c \in Customers, days \in TrendDays : GetAccountTrendCall(c, days)

SpecTrend == InitLogin /\ [][NextTrend]_vars

----------------------------------------------------------------------------
(* Transfers and deposits on a file that can fail at any single write.     *)

WriteOutcomes == [1..3 -> BOOLEAN]

NextUnwritable ==
  \/ \E c, d \in Customers, oks \in WriteOutcomes : Transfer(c, d, 100, oks)
  \/ \E ok \in BOOLEAN : Deposit(CardA, 100, ok)

SpecUnwritable == InitLedger /\ [][NextUnwritable]_vars

----------------------------------------------------------------------------
(* Withdrawals, deposits and transfers of every amount, accepted and       *)
(* refused, on a file that can fail at any single write.                   *)

(* Every write succeeds, the first fails, or the second fails.             *)
FlowOutcomes == {<<TRUE, TRUE, TRUE>>, <<FALSE, TRUE, TRUE>>, <<TRUE, FALSE, TRUE>>}

NextFlow ==
  \/ \E a \in Amounts, ok \in BOOLEAN : Withdraw(CardA, a, ok)
  \/ \E a \in Amounts, ok \in BOOLEAN : Deposit(CardA, a, ok)
  \/ \E d \in Customers, a \in ValidatedAmounts, oks \in FlowOutcomes :
       Transfer(CardA, d, a, oks)

SpecFlow == InitLedger /\ [][NextFlow]_vars

----------------------------------------------------------------------------
(* The lockout of one customer between the customer's logins, with the     *)
(* right PIN, a wrong one and the one an administrator may set, and the    *)
(* administrator's lock switch and PIN reset.                              *)

LockoutPins == {PinA, PinB, PinNew}

NextLockout ==
  \/ \E pin \in LockoutPins : Login(CardA, pin, TRUE)
  \/ \E k \in BOOLEAN : SetAccountLockStatus(CardA, k, TRUE)
  \/ \E pin \in {PinNew, PinShort} : ResetPin(CardA, pin, FreshSalt, TRUE)
  \/ Tick

SpecLockout == InitLogin /\ [][NextLockout]_vars

(* The administrator's updates, valid and invalid, of a card the           *)
(* repository holds and of one it does not, on a file that can or cannot   *)
(* be written, between logins that move the failure counters.              *)
NextUpdate ==
  \/ \E pin \in {PinA, PinB} : Login(CardA, pin, TRUE)
  \/ \E c \in Customers, q \in AdminRequests, ok \in BOOLEAN :
       UpdateAccount(c, q.holderName, q.balance, q.withdrawLimit, q.isLocked, ok)
  \/ Tick

SpecUpdate == InitLogin /\ [][NextUpdate]_vars

----------------------------------------------------------------------------
(* Money calls on an account that wrong PINs or the administrator have     *)
(* locked, and on its neighbour, while the clock runs the temporary lock   *)
(* out.                                                                    *)

NextBlocked ==
  \/ Login(CardA, PinB, TRUE)
  \/ SetAccountLockStatus(CardA, TRUE, TRUE)
  \/ Withdraw(CardA, 100, TRUE)
  \/ Deposit(CardA, 100, TRUE)
  \/ \E c, d \in Customers : Transfer(c, d, 100, [i \in 1..3 |-> TRUE])
  \/ Tick

SpecBlocked == InitLedger /\ [][NextBlocked]_vars

----------------------------------------------------------------------------
(* Every operation that appends to the ledger, on a file that every save   *)
(* can write: the customers' money calls, logins and PIN changes, and the  *)
(* administrator's create, update, lock and limit calls.                   *)

AllWritten == [i \in 1..3 |-> TRUE]

NextAgree ==
  \/ \E c \in Customers : Withdraw(c, 100, TRUE)
  \/ \E c \in Customers : Deposit(c, 100, TRUE)
  \/ \E c, d \in Customers : Transfer(c, d, 100, AllWritten)
  \/ Login(CardA, PinA, TRUE)
  \/ Login(CardB, PinB, TRUE)
  \/ ChangePin(CardB, PinB, PinNew, PinNew, AllWritten)
  \/ \E q \in ValidCreateRequests :
       CreateAccount(CardB, PinB, q.holderName, q.balance, q.withdrawLimit, FALSE, FreshSalt, TRUE)
  \/ \E c \in Customers, q \in ValidRequests :
       UpdateAccount(c, q.holderName, q.balance, q.withdrawLimit, q.isLocked, TRUE)
  \/ \E k \in BOOLEAN : SetAccountLockStatus(CardA, k, TRUE)
  \/ \E c \in Customers : SetWithdrawLimit(c, 200, TRUE)

SpecAgree == Init /\ [][NextAgree]_vars

----------------------------------------------------------------------------
(* Everything that writes an account's failure count or lock time, or      *)
(* replaces the account: logins and PIN changes with right and wrong PINs, *)
(* the administrator's calls, and the clock.                               *)

NextCounters ==
  \/ \E pin \in {PinA, PinB}, ok \in BOOLEAN : Login(CardA, pin, ok)
  \/ \E cur \in {PinA, PinB} : ChangePin(CardA, cur, PinNew, PinNew, AllWritten)
  \/ \E q \in ValidCreateRequests :
       CreateAccount(CardB, PinB, q.holderName, q.balance, q.withdrawLimit, FALSE, FreshSalt, TRUE)
  \/ \E q \in ValidRequests :
       UpdateAccount(CardA, q.holderName, q.balance, q.withdrawLimit, q.isLocked, TRUE)
  \/ \E c \in Customers : DeleteAccount(c, TRUE)
  \/ \E k \in BOOLEAN : SetAccountLockStatus(CardA, k, TRUE)
  \/ ResetPin(CardA, PinA, FreshSalt, TRUE)
  \/ SetWithdrawLimit(CardA, 200, TRUE)
  \/ Tick

SpecCounters == InitLogin /\ [][NextCounters]_vars

----------------------------------------------------------------------------
(* Properties of Spec: withdraw, deposit, transfer, createAccount and      *)
(* updateAccount in any order, on a writable file.                         *)

RECURSIVE SumBalances(_, _)
SumBalances(accts, cards) ==
  IF cards = {} THEN 0
  ELSE LET c == CHOOSE x \in cards : TRUE
       IN accts[c].balance + SumBalances(accts, cards \ {c})

TotalBalance(accts) == SumBalances(accts, DOMAIN accts)

Usable(cardNumber) == ValidateAccountNotLocked(accounts, now, cardNumber) = "OK"

Rejected == last'.result # "OK" /\ accounts' = accounts /\ transactions' = transactions

BalancesNonNegative == \A c \in DOMAIN accounts : accounts[c].balance >= 0

(* C1 as stated: every stored balance stays >= 0, and a withdraw or a      *)
(* transfer between usable (existing, unlocked, distinct) accounts whose   *)
(* amount exceeds the source balance is rejected with the                  *)
(* insufficient-funds reason, leaving every account as it was.             *)
C1_OverdrawIsInsufficientFunds ==
  [][/\ BalancesNonNegative'
     /\ \A c \in Cards, a \in Amounts, ok \in Writable :
          (/\ last'.op = "withdraw" /\ last'.card = c
           /\ Usable(c) /\ a > accounts[c].balance
           /\ Withdraw(c, a, ok))
            => (Rejected /\ last'.result = "InsufficientFunds")
     /\ \A c \in Cards, d \in Cards, a \in Amounts, oks \in SaveOutcomes :
          (/\ last'.op = "transfer" /\ last'.card = c
           /\ c # d /\ Usable(c) /\ Usable(d) /\ a > accounts[c].balance
           /\ Transfer(c, d, a, oks))
            => (Rejected /\ last'.result = "InsufficientFunds")]_vars

(* C1 as amended: every stored balance stays >= 0; a withdraw or transfer  *)
(* whose amount exceeds the balance of an existing source account is       *)
(* rejected and changes no account (nothing is clamped); between usable    *)
(* accounts the reason is insufficient funds, except that a withdraw whose *)
(* amount also exceeds the withdraw limit is rejected for the limit.       *)
C1_OverdrawRejected ==
  [][/\ BalancesNonNegative'
     /\ \A c \in Cards, a \in Amounts, ok \in Writable :
          (/\ last'.op = "withdraw" /\ last'.card = c
           /\ AccountExists(accounts, c) /\ a > accounts[c].balance
           /\ Withdraw(c, a, ok))
            => /\ Rejected
               /\ Usable(c) => last'.result = IF a > accounts[c].withdrawLimit
                                                THEN "LimitExceeded"
                                                ELSE "InsufficientFunds"
     /\ \A c \in Cards, d \in Cards, a \in Amounts, oks \in SaveOutcomes :
          (/\ last'.op = "transfer" /\ last'.card = c
           /\ AccountExists(accounts, c) /\ a > accounts[c].balance
           /\ Transfer(c, d, a, oks))
            => /\ Rejected
               /\ (c # d /\ Usable(c) /\ Usable(d)) => last'.result = "InsufficientFunds"]_vars

C1_Witness ==
  /\ last.op \in {"withdraw", "transfer"}
  /\ last.result = "InsufficientFunds"
  /\ BalancesNonNegative

(* C2: a transfer that returns success debits the source by exactly the    *)
(* amount, credits the target by exactly the amount and leaves every other *)
(* account's balance, and so the sum of all balances, unchanged.           *)
C2_Conservation ==
  [][\A c \in Cards, d \in Cards, a \in Amounts, oks \in SaveOutcomes :
       (last'.op = "transfer" /\ last'.card = c /\ last'.result = "OK" /\ Transfer(c, d, a, oks))
         => /\ DOMAIN accounts' = DOMAIN accounts
            /\ accounts[c].balance - accounts'[c].balance = a
            /\ accounts'[d].balance - accounts[d].balance = a
            /\ \A o \in DOMAIN accounts \ {c, d} : accounts'[o].balance = accounts[o].balance
            /\ TotalBalance(accounts') = TotalBalance(accounts)]_vars

C2_Witness ==
  /\ last.op = "transfer"
  /\ last.result = "OK"
  /\ Cardinality(DOMAIN accounts) = 3
  /\ Len(transactions) = 2
  /\ transactions[1].type = "Transfer"

(* C12: a transfer that returns success appends exactly two records, in    *)
(* this order: a Transfer record on the source naming the target, with the *)
(* source's new balance, then a Deposit record on the target naming the    *)
(* source, with the target's new balance; both carry the amount.           *)
C12_TransferRecords ==
  [][\A c \in Cards, d \in Cards, a \in Amounts, oks \in SaveOutcomes :
       (last'.op = "transfer" /\ last'.card = c /\ last'.result = "OK" /\ Transfer(c, d, a, oks))
         => LET n == Len(transactions) IN
            /\ Len(transactions') = n + 2
            /\ SubSeq(transactions', 1, n) = transactions
            /\ transactions'[n + 1].cardNumber = c
            /\ transactions'[n + 1].type = "Transfer"
            /\ transactions'[n + 1].targetCardNumber = d
            /\ transactions'[n + 1].amount = a
            /\ transactions'[n + 1].balanceAfter = accounts'[c].balance
            /\ transactions'[n + 2].cardNumber = d
            /\ transactions'[n + 2].type = "Deposit"
            /\ transactions'[n + 2].targetCardNumber = c
            /\ transactions'[n + 2].amount = a
            /\ transactions'[n + 2].balanceAfter = accounts'[d].balance]_vars

C12_Witness ==
  /\ last.op = "transfer"
  /\ last.result = "OK"
  /\ Len(transactions) = 2
  /\ transactions[1].type = "Transfer"
  /\ transactions[1].cardNumber = CardA
  /\ transactions[1].balanceAfter = accounts[CardA].balance
  /\ transactions[2].type = "Deposit"
  /\ transactions[2].cardNumber = CardB
  /\ transactions[2].targetCardNumber = CardA
  /\ transactions[2].amount = 100

(* C9: a successful withdraw lowers the card's stored balance by exactly   *)
(* the amount and appends exactly one record: for that card, of type       *)
(* Withdrawal, with that amount and with balanceAfter equal to the new     *)
(* stored balance.                                                         *)
C9_WithdrawEffect ==
  [][\A c \in Cards, a \in Amounts, ok \in Writable :
       (last'.op = "withdraw" /\ last'.card = c /\ last'.result = "OK" /\ Withdraw(c, a, ok))
         => /\ accounts'[c].balance = accounts[c].balance - a
            /\ Len(transactions') = Len(transactions) + 1
            /\ SubSeq(transactions', 1, Len(transactions)) = transactions
            /\ LET tx == transactions'[Len(transactions')] IN
                 /\ tx.cardNumber = c
                 /\ tx.type = "Withdrawal"
                 /\ tx.amount = a
                 /\ tx.balanceAfter = accounts'[c].balance]_vars

C9_Witness ==
  /\ last.op = "withdraw"
  /\ last.result = "OK"
  /\ Len(transactions) > 0
  /\ transactions[Len(transactions)].type = "Withdrawal"
  /\ transactions[Len(transactions)].balanceAfter = accounts[last.card].balance

(* C10: on an existing, unlocked account a withdraw is checked in the      *)
(* order amount > 0, amount <= withdrawLimit, amount <= balance: an amount *)
(* above the limit fails with the limit reason, also when it exceeds the   *)
(* balance too, and changes nothing; an amount within the limit and the    *)
(* balance (equal to either included) is accepted.                         *)
C10_WithdrawalOrder ==
  [][\A c \in Cards, a \in Amounts, ok \in Writable :
       (last'.op = "withdraw" /\ last'.card = c /\ Usable(c) /\ Withdraw(c, a, ok))
         => /\ a <= 0 => (Rejected /\ last'.result = "InvalidAmount")
            /\ (a > 0 /\ a > accounts[c].withdrawLimit)
                 => (Rejected /\ last'.result = "LimitExceeded")
            /\ (a > 0 /\ a <= accounts[c].withdrawLimit /\ a > accounts[c].balance)
                 => (Rejected /\ last'.result = "InsufficientFunds")
            /\ (a > 0 /\ a <= accounts[c].withdrawLimit /\ a <= accounts[c].balance)
                 => last'.result = "OK"]_vars

(* The amount exceeded the limit and the balance, and the limit was named. *)
C10_Witness ==
  /\ last.op = "withdraw"
  /\ last.result = "LimitExceeded"
  /\ AccountExists(accounts, last.card)
  /\ accounts[last.card].balance <= accounts[last.card].withdrawLimit

----------------------------------------------------------------------------
(* Properties of SpecLogin: logins with right, wrong and empty PINs, the   *)
(* administrator locking and unlocking, and time passing.                  *)

LoginStep(c, pin) ==
  /\ last'.op = "login"
  /\ last'.card = c
  /\ \E ok \in Writable : Login(c, pin, ok)

(* C3: on an existing account that is not permanently locked, the first    *)
(* and the second wrong PIN in a row since the count was 0 leave it         *)
(* unlocked (count 1, then 2, no lock time); the third makes it            *)
(* temporarily locked, with the lock time 15 minutes after that attempt.   *)
C3_LockAtThirdFailure ==
  [][\A c \in Customers, pin \in Pins :
       (/\ WrongPinAttempt(c, pin)
        /\ streak[c] < MAX_FAILED_ATTEMPTS
        /\ LoginStep(c, pin))
         => /\ streak'[c] = streak[c] + 1
            /\ accounts'[c].failedLoginAttempts = streak'[c]
            /\ accounts'[c].lastFailedLogin = now
            /\ IF streak'[c] = 3
                 THEN /\ accounts'[c].temporaryLockTime = now + 15
                      /\ IsTemporarilyLocked(accounts'[c], now')
                      /\ last'.result = "WrongPinLocked"
                 ELSE /\ accounts'[c].temporaryLockTime = NoTime
                      /\ ~IsTemporarilyLocked(accounts'[c], now')
                      /\ last'.result = "WrongPin"]_vars

C3_Witness ==
  /\ last = Call("login", CardA, "WrongPinLocked")
  /\ streak[CardA] = 3
  /\ accounts[CardA].failedLoginAttempts = 3
  /\ accounts[CardA].temporaryLockTime = now + 15
  /\ now > 0

(* C4: while an account is temporarily locked (and not permanently locked) *)
(* a login with any PIN, the correct one included, fails with the          *)
(* temporarily-locked reason and changes nothing: neither the failure      *)
(* count nor the lock time.                                                *)
C4_LockedLoginRefused ==
  [][\A c \in Customers, pin \in Pins \ {EmptyPin} :
       (/\ AccountExists(accounts, c)
        /\ ~accounts[c].isLocked
        /\ IsTemporarilyLocked(accounts[c], now)
        /\ LoginStep(c, pin))
         => /\ last'.result = "TemporarilyLocked"
            /\ accounts' = accounts
            /\ transactions' = transactions]_vars

(* The login refused was the fourth attempt or a later one, some minutes   *)
(* into the lock.                                                          *)
C4_Witness ==
  /\ last = Call("login", CardA, "TemporarilyLocked")
  /\ accounts[CardA].failedLoginAttempts = 3
  /\ accounts[CardA].lastFailedLogin < now
  /\ now < accounts[CardA].temporaryLockTime

(* C5: a successful login leaves the failure count at 0 and no lock time,  *)
(* and an account with fewer than 3 wrong PINs in a row since its last     *)
(* successful login is never temporarily locked.                           *)
C5_SuccessResets ==
  [][/\ \A c \in DOMAIN accounts' :
          streak'[c] < MAX_FAILED_ATTEMPTS => ~IsTemporarilyLocked(accounts'[c], now')
     /\ \A c \in Customers, pin \in Pins :
          (last'.result = "OK" /\ LoginStep(c, pin))
            => /\ accounts'[c].failedLoginAttempts = 0
               /\ accounts'[c].temporaryLockTime = NoTime
               /\ streak'[c] = 0]_vars

(* A login succeeded after a failure that had not locked the account (no  *)
(* lock could have run out yet, and no administrator has acted), and the   *)
(* count is back at 0.                                                     *)
C5_Witness ==
  /\ last = Call("login", CardA, "OK")
  /\ Len(transactions) = 1
  /\ accounts[CardA].lastFailedLogin # NoTime
  /\ now < accounts[CardA].lastFailedLogin + 15
  /\ accounts[CardA].failedLoginAttempts = 0
  /\ streak[CardA] = 0

(* C6: once 15 minutes have passed since the failure that locked it, an    *)
(* account that is not permanently locked accepts the correct PIN: the     *)
(* login succeeds, the failure count becomes 0 and the lock time is        *)
(* cleared.                                                                *)
C6_LockExpires ==
  [][\A c \in Customers, pin \in Pins :
       (/\ AccountExists(accounts, c)
        /\ ~accounts[c].isLocked
        /\ accounts[c].failedLoginAttempts >= MAX_FAILED_ATTEMPTS
        /\ now >= accounts[c].lastFailedLogin + 15
        /\ pin # EmptyPin
        /\ VerifyPin(accounts[c], pin)
        /\ LoginStep(c, pin))
         => /\ last'.result = "OK"
            /\ accounts'[c].failedLoginAttempts = 0
            /\ accounts'[c].temporaryLockTime = NoTime]_vars

(* The account was locked by failures, the lock ran out, and the first     *)
(* successful call of the run, a login, cleared it: no administrator       *)
(* stepped in.                                                             *)
C6_Witness ==
  /\ last = Call("login", CardA, "OK")
  /\ Len(transactions) = 1
  /\ accounts[CardA].lastFailedLogin # NoTime
  /\ now >= accounts[CardA].lastFailedLogin + 15
  /\ accounts[CardA].failedLoginAttempts = 0
  /\ accounts[CardA].temporaryLockTime = NoTime
  /\ streak[CardA] = 0

(* C32: a login on a card the repository does not hold, or on an account   *)
(* that is permanently locked, fails whatever PIN is given, the correct    *)
(* one included, and changes no account (no failure is recorded) and no    *)
(* ledger; with a PIN that is not empty the reason is that of the first    *)
(* check that fails in the order card exists, not permanently locked, not  *)
(* temporarily locked, PIN matches: the unknown card, or the permanent     *)
(* lock even while a temporary lock is running.                            *)
C32_CredentialsShortCircuit ==
  [][\A c \in Customers, pin \in Pins :
       (/\ ~AccountExists(accounts, c) \/ accounts[c].isLocked
        /\ LoginStep(c, pin))
         => /\ last'.result # "OK"
            /\ accounts' = accounts
            /\ transactions' = transactions
            /\ pin # EmptyPin
                 => last'.result = IF ~AccountExists(accounts, c) THEN "NotFound"
                                   ELSE "PermanentlyLocked"]_vars

(* A login was refused for the permanent lock while the temporary lock of  *)
(* three wrong PINs was still running.                                     *)
C32_Witness ==
  /\ last = Call("login", CardA, "PermanentlyLocked")
  /\ accounts[CardA].isLocked
  /\ accounts[CardA].failedLoginAttempts = 3
  /\ IsTemporarilyLocked(accounts[CardA], now)

(* A login on the card the repository does not hold was refused.           *)
C32_UnknownCardWitness ==
  /\ last = Call("login", CardB, "NotFound")
  /\ ~AccountExists(accounts, CardB)

----------------------------------------------------------------------------
(* Properties of the concurrent calls.                                     *)

RECURSIVE SumWithdrawn(_)
SumWithdrawn(procs) ==
  IF procs = {} THEN 0
  ELSE LET p == CHOOSE x \in procs : TRUE
       IN (IF res[p] = "OK" THEN arg[p] ELSE 0) + SumWithdrawn(procs \ {p})

AllDone(procs) == \A p \in procs : pc[p] = "done"

(* C7: two concurrent withdraws on one card never both work from the same  *)
(* stale balance: once both have returned, the stored balance is the       *)
(* initial balance minus the amounts of the withdraws that succeeded.      *)
C7_NoLostWithdrawal ==
  AllDone(Workers) =>
    /\ accounts[CardA].balance = raceInit - SumWithdrawn(Workers)
    /\ SumWithdrawn(Workers) <= raceInit

(* C8: three concurrent wrong-PIN logins on one account always end with    *)
(* failedLoginAttempts = 3 and the account temporarily locked.             *)
C8_NoUnderLock ==
  AllDone(Procs) => /\ accounts[CardA].failedLoginAttempts = 3
                    /\ IsTemporarilyLocked(accounts[CardA], now)

----------------------------------------------------------------------------
(* Properties of SpecAmounts.                                              *)

(* C11: a withdraw of a positive amount that is not a multiple of 100 is   *)
(* rejected, and leaves the balances and the ledger as they were.          *)
C11_DenominationEnforced ==
  [][\A c \in Customers, a \in EdgeAmounts, ok \in Writable :
       (/\ last'.op = "withdraw" /\ last'.card = c
        /\ a > 0 /\ a % 100 # 0
        /\ WithdrawAny(c, a, ok))
         => Rejected]_vars

(* The order of checks as the specification lists it for validateTransfer: *)
(* from # to, both accounts exist and are not locked, amount > 0, amount   *)
(* <= source balance, amount <= ceiling.                                   *)
ListedTransferOrder(accts, t, fromCardNumber, toCardNumber, amount) ==
  ValidateOperation(<<IF fromCardNumber = toCardNumber THEN "SameCard" ELSE "OK",
                      ValidateAccountExists(accts, fromCardNumber),
                      ValidateAccountNotLocked(accts, t, fromCardNumber),
                      ValidateAccountExists(accts, toCardNumber),
                      ValidateAccountNotLocked(accts, t, toCardNumber),
                      IF amount <= 0 THEN "InvalidAmount" ELSE "OK",
                      ValidateSufficientBalance(accts, fromCardNumber, amount),
                      IF amount > MaxTransfer THEN "CeilingExceeded" ELSE "OK">>)

(* C13: a transfer reports the first failing check in the listed order; so *)
(* a transfer to the same card with a non-positive amount is rejected for  *)
(* from = to, and an amount above both the source balance and the ceiling  *)
(* is rejected for insufficient funds.                                     *)
C13_TransferCheckOrder ==
  [][\A c \in Customers, d \in Customers, a \in EdgeAmounts, oks \in SaveOutcomes :
       (last'.op = "transfer" /\ last'.card = c /\ TransferAny(c, d, a, oks))
         => last'.result = ListedTransferOrder(accounts, now, c, d, a)]_vars

----------------------------------------------------------------------------
(* Properties of SpecPin.                                                  *)

(* C15: changePin succeeds only if currentPin verifies, newPin has 4 to 6  *)
(* digits and differs from the current PIN, and confirmPin, when given,    *)
(* equals newPin; after a success the PIN hash is recomputed with a fresh  *)
(* salt, so a login with newPin succeeds and a login with the old PIN      *)
(* fails.                                                                  *)
C15_ChangePinTakesEffect ==
  [][\A c \in Customers, cur \in CurrentPins, new \in NewPins, confirm \in ConfirmPins,
        oks \in SaveOutcomes :
       (/\ last'.op = "changePin" /\ last'.card = c /\ last'.result = "OK"
        /\ ChangePin(c, cur, new, confirm, oks))
         => /\ VerifyPin(accounts[c], cur)
            /\ IsValidPin(new)
            /\ ~VerifyPin(accounts[c], new)
            /\ confirm = EmptyPin \/ confirm = new
            /\ accounts'[c].pinHash = HashPin(new, accounts'[c].salt)
            /\ PerformLogin(accounts', transactions', now', c, new, TRUE).result = "OK"
            /\ PerformLogin(accounts', transactions', now', c, cur, TRUE).result # "OK"]_vars

ChangePinStep(c, cur, new, confirm) ==
  /\ last'.op = "changePin"
  /\ last'.card = c
  /\ \E oks \in SaveOutcomes : ChangePin(c, cur, new, confirm, oks)

(* The account is one whose PIN the validator gets as far as comparing.    *)
PinCompared(c) ==
  /\ AccountExists(accounts, c)
  /\ ~accounts[c].isLocked
  /\ ~IsTemporarilyLocked(accounts[c], now)

(* C37: on an account that is not locked, a changePin call with a wrong    *)
(* currentPin raises failedLoginAttempts by one, as a wrong login does;    *)
(* the third wrong PIN in a row, by changePin or login, locks the account  *)
(* for 15 minutes; and a changePin call with the correct currentPin leaves *)
(* the count at 0 and no lock time, also when the call is then rejected    *)
(* for the new PIN's format, the confirmation or the equality with the     *)
(* old PIN.                                                                *)
C37_PinChangeCounts ==
  [][\A c \in Customers, cur \in CurrentPins, new \in NewPins, confirm \in ConfirmPins :
       /\ (/\ PinCompared(c)
           /\ WrongPinAttempt(c, cur)
           /\ ChangePinStep(c, cur, new, confirm))
            => /\ accounts'[c].failedLoginAttempts = accounts[c].failedLoginAttempts + 1
               /\ accounts'[c].lastFailedLogin = now
               /\ streak[c] < MAX_FAILED_ATTEMPTS
                    => /\ accounts'[c].failedLoginAttempts = streak[c] + 1
                       /\ IF streak[c] + 1 = 3
                            THEN /\ accounts'[c].temporaryLockTime = now + 15
                                 /\ IsTemporarilyLocked(accounts'[c], now')
                                 /\ last'.result = "WrongPinLocked"
                            ELSE /\ accounts'[c].temporaryLockTime = NoTime
                                 /\ last'.result = "WrongPin"
               /\ transactions' = transactions
       /\ (/\ PinCompared(c)
           /\ VerifyPin(accounts[c], cur)
           /\ ChangePinStep(c, cur, new, confirm))
            => /\ accounts'[c].failedLoginAttempts = 0
               /\ accounts'[c].temporaryLockTime = NoTime
               /\ (~IsValidPin(new) \/ (confirm # EmptyPin /\ confirm # new)
                      \/ VerifyPin(accounts[c], new))
                    => last'.result \in {"BadNewPin", "ConfirmMismatch", "SamePin"}]_vars

(* A changePin call with the correct current PIN was rejected for the new  *)
(* PIN and still cleared the count of the wrong PINs before it: a failure  *)
(* has been recorded, no call has succeeded yet, and the count is 0.       *)
C37_Witness ==
  /\ last.op = "changePin" /\ last.card = CardA
  /\ last.result \in {"BadNewPin", "ConfirmMismatch", "SamePin"}
  /\ transactions = <<>>
  /\ accounts[CardA].lastFailedLogin # NoTime
  /\ accounts[CardA].failedLoginAttempts = 0

(* The third wrong current PIN in a row locked the account.                *)
C37_LockWitness ==
  /\ last = Call("changePin", CardA, "WrongPinLocked")
  /\ accounts[CardA].failedLoginAttempts = 3
  /\ accounts[CardA].temporaryLockTime = now + 15

----------------------------------------------------------------------------
(* Properties of SpecSetPin.                                               *)

(* C16 as stated: for every PIN string p and every account, verifyPin(p)   *)
(* is true after setPin(p).                                                *)
C16_AnyPinVerifies ==
  [][\A c \in Cards, p \in PinStrings, salt \in Salts :
       (last'.op = "setPin" /\ last'.card = c /\ c \in DOMAIN accounts
        /\ SetPinThenVerify(c, p, salt))
         => VerifyPin(accounts'[c], p)]_vars

(* C16 as amended: for every PIN string p of 4 to 6 digits and every       *)
(* account, verifyPin(p) is true after setPin(p); for any other string     *)
(* setPin leaves the account, and so the PIN it accepts, as it was.        *)
C16_ValidPinVerifies ==
  [][\A c \in Cards, p \in PinStrings, salt \in Salts :
       (last'.op = "setPin" /\ last'.card = c /\ c \in DOMAIN accounts
        /\ SetPinThenVerify(c, p, salt))
         => /\ IsValidPin(p) => VerifyPin(accounts'[c], p) /\ last'.result = "OK"
            /\ ~IsValidPin(p) => accounts'[c] = accounts[c]]_vars

C16_Witness ==
  /\ last.op = "setPin"
  /\ last.result = "OK"
  /\ last.card = CardA
  /\ accounts[CardA].salt = <<21>>
  /\ accounts[CardA].pinHash = HashPin(PinLong, <<21>>)
  /\ VerifyPin(accounts[CardA], PinLong)
  /\ ~VerifyPin(accounts[CardA], PinA)

----------------------------------------------------------------------------
(* Properties of SpecService.                                              *)

Admins(accts) == {c \in DOMAIN accts : accts[c].isAdmin}

(* C17: at least one administrator account exists after every load and     *)
(* after any sequence of createAccount, updateAccount, deleteAccount,      *)
(* setAccountLockStatus, resetPin and setWithdrawLimit; a deleteAccount on *)
(* the last administrator account fails and leaves it in the store.        *)
C17_AlwaysAnAdmin ==
  /\ [](Admins(accounts) # {})
  /\ [][\A c \in Cards, ok \in Writable :
          (/\ last'.op = "deleteAccount" /\ last'.card = c
           /\ Admins(accounts) = {c}
           /\ DeleteAccount(c, ok) \/ DeleteAccountModel(c, ok))
            => /\ last'.result # "OK"
               /\ accounts' = accounts]_vars

C17_Witness ==
  /\ last.op = "deleteAccount"
  /\ last.result = "LastAdmin"
  /\ Admins(accounts) = {last.card}
  /\ last.card = CardB

RecordsOf(txs, cardNumber) == {i \in 1..Len(txs) : txs[i].cardNumber = cardNumber}

(* C20: after a deleteAccount that returns success the account is no       *)
(* longer in the store and the ledger holds no record whose cardNumber is  *)
(* that card; when the card number is created again, its history holds     *)
(* none of the old records.                                                *)
C20_DeleteCascade ==
  [][\A c \in Cards, ok \in Writable :
       /\ (/\ last'.op = "deleteAccount" /\ last'.card = c /\ last'.result = "OK"
           /\ DeleteAccount(c, ok) \/ DeleteAccountModel(c, ok))
            => /\ ~AccountExists(accounts', c)
               /\ RecordsOf(transactions', c) = {}
               /\ \A d \in Cards \ {c} :
                    Cardinality(RecordsOf(transactions', d))
                      = Cardinality(RecordsOf(transactions, d))
       /\ (last'.op = "createAccount" /\ last'.card = c /\ last'.result = "OK")
            => \A i \in RecordsOf(transactions', c) : i > Len(transactions)]_vars

C20_Witness ==
  /\ last.op = "createAccount"
  /\ last.result = "OK"
  /\ last.card = CardA
  /\ Len(transactions) = 2
  /\ RecordsOf(transactions, CardA) = {2}
  /\ transactions[1].cardNumber = AdminCard

(* C24: createAccount with a card number that is already in the repository *)
(* fails and leaves every account and the ledger as they were; every       *)
(* account is stored under its own card number, and no step changes the    *)
(* cardNumber of an account that stays in the repository.                  *)
C24_CardNumbersUnique ==
  /\ [](\A c \in DOMAIN accounts : accounts[c].cardNumber = c)
  /\ [][/\ \A c \in (DOMAIN accounts) \cap (DOMAIN accounts') :
            accounts'[c].cardNumber = accounts[c].cardNumber
        /\ \A c \in DOMAIN accounts :
            (/\ last'.op = "createAccount" /\ last'.card = c
             /\ \E q \in ValidCreateRequests, isAdmin \in BOOLEAN, ok \in Writable :
                  CreateAccount(c, PinA, q.holderName, q.balance, q.withdrawLimit,
                                isAdmin, FreshSalt, ok))
              => /\ last'.result # "OK"
                 /\ accounts' = accounts
                 /\ transactions' = transactions]_vars

C24_Witness ==
  /\ last = Call("createAccount", CardA, "CardExists")
  /\ AccountExists(accounts, CardA)
  /\ accounts[CardA].withdrawLimit = 100
  /\ Len(transactions) > 0

----------------------------------------------------------------------------
(* Properties of SpecAdmin.                                                *)

(* C18: no deleteAccount, setAccountLockStatus or updateAccount issued in  *)
(* a logged-in administrator's session leaves the account of that session  *)
(* deleted or permanently locked.                                          *)
C18_OwnAccountKept ==
  [][(/\ last'.op \in {"deleteAccount", "setAccountLockStatus", "updateAccount"}
      /\ session.isLoggedIn /\ session.isAdmin
      /\ AccountExists(accounts, session.cardNumber)
      /\ ~accounts[session.cardNumber].isLocked)
       => /\ AccountExists(accounts', session.cardNumber)
          /\ ~accounts'[session.cardNumber].isLocked]_vars

(* C19: when the session is not logged in or is not an administrator's,    *)
(* getAllAccounts, createAccount, updateAccount, deleteAccount,            *)
(* resetAccountPin, setAccountLockStatus and setWithdrawLimit fail with an *)
(* error and leave the accounts and the ledger unchanged.                  *)
C19_NonAdminRefused ==
  [][(/\ last'.op \in AdminOps
      /\ ~session.isLoggedIn \/ ~session.isAdmin)
       => /\ last'.result = "PermissionDenied"
          /\ accounts' = accounts
          /\ transactions' = transactions
          /\ session' = session]_vars

C19_Witness ==
  /\ last.op = "createAccount"
  /\ last.card = CardB
  /\ last.result = "PermissionDenied"
  /\ session.isLoggedIn
  /\ ~session.isAdmin
  /\ session.cardNumber = CardA
  /\ ~AccountExists(accounts, CardB)

----------------------------------------------------------------------------
(* Properties of SpecLedger.                                               *)

IsPrefix(s, t) == Len(s) <= Len(t) /\ SubSeq(t, 1, Len(s)) = s

WithoutCard(txs, cardNumber) == SelectSeq(txs, LAMBDA tx : tx.cardNumber # cardNumber)

(* C21: the ledger is append-only.  A step either leaves the records it    *)
(* found where they were and adds records after them, or it is the         *)
(* deletion of an account, and then the records of the other cards stay,   *)
(* in the order they had, and only the deleted card's records are gone.    *)
C21_AppendOnly ==
  [][\/ IsPrefix(transactions, transactions')
     \/ \E c \in Cards :
          /\ last'.op = "deleteAccount" /\ last'.card = c /\ last'.result = "OK"
          /\ IsPrefix(WithoutCard(transactions, c), transactions')
          /\ \A d \in Cards \ {c} :
               IsPrefix(GetTransactionsForCard(transactions, d),
                        GetTransactionsForCard(transactions', d))]_vars

C21_Witness ==
  /\ last.op = "deleteAccount" /\ last.result = "OK"
  /\ Len(transactions) = 2
  /\ transactions[1] # transactions[2]
  /\ \E i \in 1..2 : transactions[i].type = "Transfer"

Min(a, b) == IF a <= b THEN a ELSE b

(* How many times the record x occurs in the list s.                       *)
Occurrences(s, x) == Cardinality({i \in 1..Len(s) : s[i] = x})

(* C22: getRecentTransactions(card, n) returns min(n, number of the card's *)
(* records) records, all of that card, newest first, and no record left    *)
(* out is more recent than a returned one; the ledger is as it was.        *)
C22_RecentTransactions ==
  [][(reply' # reply /\ reply'.op = "getRecentTransactions") =>
       LET cardNumber == reply'.args[1]
           count == reply'.args[2]
           returned == reply'.value
           all == SelectSeq(transactions, LAMBDA tx : tx.cardNumber = cardNumber) IN
       /\ Len(returned) = Min(count, Len(all))
       /\ \A i \in 1..Len(returned) : returned[i].cardNumber = cardNumber
       /\ \A i \in 1..Len(returned) : \A j \in (i + 1)..Len(returned) :
            returned[i].timestamp >= returned[j].timestamp
       /\ \A i \in 1..Len(returned) :
            Occurrences(returned, returned[i]) <= Occurrences(all, returned[i])
       /\ \A k \in 1..Len(all) :
            Occurrences(returned, all[k]) < Occurrences(all, all[k]) =>
              \A i \in 1..Len(returned) : returned[i].timestamp >= all[k].timestamp
       /\ transactions' = transactions
       /\ accounts' = accounts]_vars

C22_Witness ==
  /\ reply.op = "getRecentTransactions"
  /\ reply.args = <<CardA, 2>>
  /\ Len(SelectSeq(transactions, LAMBDA tx : tx.cardNumber = CardA)) = 3
  /\ Len(reply.value) = 2
  /\ reply.value[1].timestamp > reply.value[2].timestamp
  /\ reply.value[2].timestamp > transactions[1].timestamp

----------------------------------------------------------------------------
(* Properties of SpecRepository.                                           *)

(* C23: saveAccount of an account with balance < 0 or withdrawLimit <= 0   *)
(* fails as an invalid account and leaves the repository as it was, and    *)
(* every stored account has withdrawLimit > 0.                             *)
C23_SaveRejectsInvalid ==
  /\ [](\A c \in DOMAIN accounts : accounts[c].withdrawLimit > 0)
  /\ [][\A c \in Customers, holderName \in HolderNames, balance \in Balances,
          withdrawLimit \in WithdrawLimits, ok \in BOOLEAN :
          (/\ last'.op = "saveAccount" /\ last'.card = c
           /\ (balance < 0 \/ withdrawLimit <= 0)
           /\ SaveAccountCall(c, holderName, balance, withdrawLimit, ok))
            => last'.result = "InvalidAccount" /\ accounts' = accounts]_vars

----------------------------------------------------------------------------
(* Properties of SpecValidator.                                            *)

(* C25: validateWithdrawal, validateDeposit, validateTransfer,             *)
(* validateCreateAccount, validateUpdateAccount, validateAdminOperation    *)
(* and validateTargetAccount leave every account as it was, whether they   *)
(* pass or fail.                                                           *)
C25_ValidatorsReadOnly ==
  [][(\/ /\ reply'.op = "validateWithdrawal"
         /\ ValidateWithdrawalCall(reply'.args[1], reply'.args[2])
      \/ /\ reply'.op = "validateDeposit"
         /\ ValidateDepositCall(reply'.args[1], reply'.args[2])
      \/ /\ reply'.op = "validateTransfer"
         /\ ValidateTransferCall(reply'.args[1], reply'.args[2], reply'.args[3])
      \/ /\ reply'.op = "validateCreateAccount"
         /\ ValidateCreateAccountCall(reply'.args[1], PinA, reply'.args[2],
                                      reply'.args[3], reply'.args[4])
      \/ /\ reply'.op = "validateUpdateAccount"
         /\ ValidateUpdateAccountCall(reply'.args[1], reply'.args[2],
                                      reply'.args[3], reply'.args[4])
      \/ /\ reply'.op = "validateAdminOperation"
         /\ ValidateAdminOperationCall(reply'.args[1])
      \/ /\ reply'.op = "validateTargetAccount"
         /\ ValidateTargetAccountCall(reply'.args[1]))
       => accounts' = accounts /\ transactions' = transactions]_vars

C25_Witness ==
  /\ reply = Reply("validateWithdrawal", <<CardA, 100>>, "TemporarilyLocked")
  /\ accounts[CardA].failedLoginAttempts = MAX_FAILED_ATTEMPTS
  /\ accounts[CardA].temporaryLockTime # NoTime

----------------------------------------------------------------------------
(* Properties of SpecSink.                                                 *)

(* C26: when the ledger's file cannot be written, recordTransaction still  *)
(* keeps the record in memory, at the end of the card's history, and its   *)
(* caller is handed the write error.                                       *)
C26_WriteErrorSurfaced ==
  [][\A c \in Customers, type \in RecordedTypes :
       (/\ reply'.op = "recordTransaction" /\ reply'.args = <<c, type, FALSE>>
        /\ RecordTransactionCall(c, type, 100, FALSE))
         => /\ GetTransactionsForCard(transactions', c)
                 = Append(GetTransactionsForCard(transactions, c),
                          CreateTransaction(c, type, 100, 100, NoCard, now))
            /\ reply'.value = "WriteError"]_vars

----------------------------------------------------------------------------
(* Properties of SpecAnalytics.                                            *)

(* C27: predictBalance, predictBalanceWithRegression,                      *)
(* predictBalanceMultiDays, getAccountTrend and getTransactionFrequency    *)
(* change no account and no record of the ledger, so a deposit or a        *)
(* withdrawal made after the call has the outcome it would have had        *)
(* without the call.                                                       *)
C27_AnalyticsReadOnly ==
  [][(\/ /\ reply'.op = "predictBalance"
         /\ PredictBalanceCall(reply'.args[1], reply'.args[2])
      \/ /\ reply'.op = "predictBalanceWithRegression"
         /\ PredictBalanceWithRegressionCall(reply'.args[1], reply'.args[2])
      \/ /\ reply'.op = "predictBalanceMultiDays"
         /\ PredictBalanceMultiDaysCall(reply'.args[1], reply'.args[2])
      \/ /\ reply'.op = "getAccountTrend"
         /\ GetAccountTrendCall(reply'.args[1], reply'.args[2])
      \/ /\ reply'.op = "getTransactionFrequency"
         /\ GetTransactionFrequencyCall(reply'.args[1], reply'.args[2]))
       => /\ accounts' = accounts
          /\ transactions' = transactions
          /\ DepositAmount(accounts', transactions', now', CardA, 100, TRUE)
               = DepositAmount(accounts, transactions, now, CardA, 100, TRUE)
          /\ WithdrawAmount(accounts', transactions', now', CardA, 100, TRUE)
               = WithdrawAmount(accounts, transactions, now, CardA, 100, TRUE)]_vars

C27_Witness ==
  /\ reply.op = "predictBalanceWithRegression"
  /\ last.op = "withdraw" /\ last.result = "OK"
  /\ Len(transactions) = MinRegressionRecords
  /\ reply.value # Whole(accounts[CardA].balance)
  /\ reply.value # Whole(0)

(* C28 as claimed: predictBalanceWithRegression for a card with fewer than *)
(* five records returns what predictBalanceWithWeightedAverage returns for *)
(* the same card and number of days.                                       *)
C28_RegressionFallsBack ==
  [][\A daysInFuture \in Horizons :
       (/\ reply'.op = "predictBalanceWithRegression"
        /\ Len(SelectSeq(transactions, LAMBDA tx : tx.cardNumber = CardA)) < 5
        /\ PredictBalanceWithRegressionCall(CardA, daysInFuture))
         => reply'.value = PredictBalanceWithWeightedAverage(accounts, transactions, now,
                                                             CardA, daysInFuture)]_vars

(* C28, amended: predictBalanceWithRegression for a card with fewer than   *)
(* five records returns the account's current balance, which is also what  *)
(* predictBalanceWithWeightedAverage returns when the card has fewer than  *)
(* two records; for a card with five records or more that all fall on one  *)
(* day it returns what predictBalanceWithWeightedAverage returns.          *)
C28_RegressionTooFewRecords ==
  [][\A daysInFuture \in Horizons :
       (/\ reply'.op = "predictBalanceWithRegression"
        /\ PredictBalanceWithRegressionCall(CardA, daysInFuture))
         => LET all == SelectSeq(transactions, LAMBDA tx : tx.cardNumber = CardA)
                weighted == PredictBalanceWithWeightedAverage(accounts, transactions, now,
                                                              CardA, daysInFuture) IN
            /\ Len(all) < 5 => reply'.value = <<accounts[CardA].balance, 1>>
            /\ Len(all) < 2 => reply'.value = weighted
            /\ (/\ Len(all) >= 5
                /\ \A i, j \in 1..Len(all) :
                     all[i].timestamp \div DayLength = all[j].timestamp \div DayLength)
                 => reply'.value = weighted]_vars

C28_Witness ==
  /\ reply.op = "predictBalanceWithRegression"
  /\ Len(SelectSeq(transactions, LAMBDA tx : tx.cardNumber = CardA)) = 2
  /\ reply.value = <<accounts[CardA].balance, 1>>
  /\ reply.value # PredictBalanceWithWeightedAverage(accounts, transactions, now, CardA,
                                                     reply.args[2])

C28_FallbackWitness ==
  /\ reply.op = "predictBalanceWithRegression"
  /\ Len(transactions) = 5
  /\ \A i \in 1..5 : transactions[i].timestamp = 0
  /\ reply.value # <<accounts[CardA].balance, 1>>

----------------------------------------------------------------------------
(* Properties of SpecTrend.                                                *)

(* The sum of the amounts of the card's records of the given types dated   *)
(* date.                                                                   *)
RECURSIVE AmountOn(_, _, _, _)
AmountOn(txs, cardNumber, date, types) ==
  IF txs = <<>> THEN 0
  ELSE (IF /\ Head(txs).cardNumber = cardNumber
           /\ Head(txs).timestamp \div DayLength = date
           /\ Head(txs).type \in types
          THEN Head(txs).amount ELSE 0)
       + AmountOn(Tail(txs), cardNumber, date, types)

(* Both maps have one entry for each of the days ending today: the         *)
(* deposits of the day as income, its withdrawals and transfers as         *)
(* expense.                                                                *)
TrendFilled(value, cardNumber, days) ==
  LET today == now \div DayLength IN
  /\ DOMAIN value.income = (today - days + 1)..today
  /\ DOMAIN value.expense = (today - days + 1)..today
  /\ Cardinality(DOMAIN value.income) = days
  /\ \A date \in (today - days + 1)..today :
       /\ value.income[date] = AmountOn(transactions, cardNumber, date, {"Deposit"})
       /\ value.expense[date]
            = AmountOn(transactions, cardNumber, date, {"Withdrawal", "Transfer"})

(* C29 as claimed: for an existing card and days > 0 getAccountTrend fills *)
(* both maps, also when the card has no record at all.                     *)
C29_TrendZeroFilled ==
  [][\A c \in Customers, days \in TrendDays :
       (/\ reply'.op = "getAccountTrend" /\ reply'.args = <<c, days>>
        /\ c \in DOMAIN accounts /\ days > 0
        /\ GetAccountTrendCall(c, days))
         => TrendFilled(reply'.value, c, days)]_vars

(* C29, amended: for an existing card that has at least one record and     *)
(* days > 0 getAccountTrend fills both maps; when the card has no record   *)
(* the call fails and fills neither map.                                   *)
C29_TrendOfHistory ==
  [][\A c \in Customers, days \in TrendDays :
       (/\ reply'.op = "getAccountTrend" /\ reply'.args = <<c, days>>
        /\ c \in DOMAIN accounts /\ days > 0
        /\ GetAccountTrendCall(c, days))
         => IF \E i \in 1..Len(transactions) : transactions[i].cardNumber = c
              THEN reply'.value.result = "OK" /\ TrendFilled(reply'.value, c, days)
              ELSE /\ reply'.value.result # "OK"
                   /\ DOMAIN reply'.value.income = {}
                   /\ DOMAIN reply'.value.expense = {}]_vars

C29_Witness ==
  /\ reply.op = "getAccountTrend" /\ reply.args = <<CardA, 2>>
  /\ now = DayLength
  /\ reply.value.result = "OK"
  /\ reply.value.income[0] = 100 /\ reply.value.expense[0] = 200
  /\ reply.value.income[1] = 0 /\ reply.value.expense[1] = 0
  /\ \E i \in 1..Len(transactions) : transactions[i].type = "Other"
  /\ \E i \in 1..Len(transactions) : transactions[i].type = "Transfer"
  /\ \E i \in 1..Len(transactions) : transactions[i].type = "Withdrawal"

----------------------------------------------------------------------------
(* Properties of SpecUnwritable.                                           *)

(* C30: when a transfer fails because the save of the target account fails *)
(* after the source account was saved, the repository holds for both       *)
(* accounts the balances they had before the transfer, and no record is    *)
(* appended.                                                               *)
C30_TransferRolledBack ==
  [][\A c, d \in Customers, oks \in WriteOutcomes :
       (/\ last'.op = "transfer" /\ last'.card = c /\ last'.result # "OK"
        /\ c # d
        /\ ValidateTransfer(accounts, now, c, d, 100) = "OK"
        /\ oks[1] /\ ~oks[2]
        /\ Transfer(c, d, 100, oks))
         => /\ accounts'[c].balance = accounts[c].balance
            /\ accounts'[d].balance = accounts[d].balance
            /\ accounts'[c].balance + accounts'[d].balance
                 = accounts[c].balance + accounts[d].balance
            /\ transactions' = transactions]_vars

----------------------------------------------------------------------------
(* Properties of SpecFlow.                                                 *)

(* The records a step appended to the ledger.                              *)
Appended == SubSeq(transactions', Len(transactions) + 1, Len(transactions'))

(* C31: a withdraw, deposit or transfer that its validation refuses        *)
(* changes no account and appends no transaction; and a record is appended *)
(* only by a call that succeeded, after the save of the changed account:   *)
(* the repository then holds, for the card of every appended record, the   *)
(* balance the record carries, so a call whose save failed appends         *)
(* nothing.                                                                *)
C31_ValidateMutateAppend ==
  [][/\ \A c \in Customers, a \in Amounts, ok \in BOOLEAN :
          (/\ last'.op = "withdraw" /\ last'.card = c
           /\ ValidateWithdrawal(accounts, now, c, a) # "OK"
           /\ Withdraw(c, a, ok))
            => Rejected
     /\ \A c \in Customers, a \in Amounts, ok \in BOOLEAN :
          (/\ last'.op = "deposit" /\ last'.card = c
           /\ ValidateDeposit(accounts, now, c, a) # "OK"
           /\ Deposit(c, a, ok))
            => Rejected
     /\ \A c, d \in Customers, a \in ValidatedAmounts, oks \in FlowOutcomes :
          (/\ last'.op = "transfer" /\ last'.card = c
           /\ ValidateTransfer(accounts, now, c, d, a) # "OK"
           /\ Transfer(c, d, a, oks))
            => Rejected
     /\ transactions' # transactions
          => /\ last'.result = "OK"
             /\ IsPrefix(transactions, transactions')
             /\ accounts' # accounts
             /\ \A i \in 1..Len(Appended) :
                  /\ AccountExists(accounts', Appended[i].cardNumber)
                  /\ accounts'[Appended[i].cardNumber].balance = Appended[i].balanceAfter
     /\ last'.result = "PersistenceFailure" => transactions' = transactions]_vars

(* C31 witness: a refused call (the ledger unchanged), a call whose save   *)
(* failed, and an accepted call have all happened: the ledger holds the    *)
(* record of a deposit and the last call, a withdrawal, failed at its      *)
(* save.                                                                   *)
C31_Witness ==
  /\ last.op = "withdraw" /\ last.result = "PersistenceFailure"
  /\ \E i \in 1..Len(transactions) : transactions[i].type = "Deposit"


----------------------------------------------------------------------------
(* Properties of SpecLockout.                                              *)

(* The last call was an unlock or a PIN reset of card c that succeeded.    *)
(* A lock switch that succeeded and left the account unlocked was an       *)
(* unlock: last changes with every call, so the account is as that call    *)
(* left it.                                                                *)
LockoutCleared(c) ==
  /\ last.card = c
  /\ last.result = "OK"
  /\ \/ last.op = "resetPin"
     \/ last.op = "setAccountLockStatus" /\ ~accounts[c].isLocked

(* After a successful setAccountLockStatus(card, false) or resetPin the    *)
(* account has failedLoginAttempts = 0 and no temporary lock.              *)
CountersCleared ==
  \A c \in Customers :
    /\ (/\ last'.op = "setAccountLockStatus" /\ last'.card = c /\ last'.result = "OK"
        /\ SetAccountLockStatus(c, FALSE, TRUE))
         => /\ accounts'[c].failedLoginAttempts = 0
            /\ accounts'[c].temporaryLockTime = NoTime
            /\ ~IsTemporarilyLocked(accounts'[c], now')
    /\ \A pin \in {PinNew, PinShort} :
         (/\ last'.op = "resetPin" /\ last'.card = c /\ last'.result = "OK"
          /\ ResetPin(c, pin, FreshSalt, TRUE))
           => /\ accounts'[c].failedLoginAttempts = 0
              /\ accounts'[c].temporaryLockTime = NoTime
              /\ ~IsTemporarilyLocked(accounts'[c], now')
              /\ VerifyPin(accounts'[c], pin)

(* C33 as stated: after setAccountLockStatus(card, false) or               *)
(* resetPin(card, newPin) succeeds the account has failedLoginAttempts = 0 *)
(* and no temporary lock, and the next login with the correct PIN          *)
(* succeeds.                                                               *)
C33_NextLoginSucceeds ==
  [][/\ CountersCleared
     /\ \A c \in Customers, pin \in LockoutPins :
          (/\ LockoutCleared(c)
           /\ VerifyPin(accounts[c], pin)
           /\ LoginStep(c, pin))
            => last'.result = "OK"]_vars

(* C33 as amended: the counters are cleared as stated, and the next login  *)
(* with the correct PIN succeeds when the account is not permanently       *)
(* locked; resetPin leaves a permanent lock in place, and the login is     *)
(* then refused for that lock.                                             *)
C33_LockoutCleared ==
  [][/\ CountersCleared
     /\ \A c \in Customers, pin \in LockoutPins :
          (/\ LockoutCleared(c)
           /\ VerifyPin(accounts[c], pin)
           /\ LoginStep(c, pin))
            => last'.result = IF accounts[c].isLocked THEN "PermanentlyLocked" ELSE "OK"]_vars

(* The PIN was reset inside the fifteen minutes after a wrong PIN, and the *)
(* login with the new PIN, made in the same minute as the reset, went      *)
(* through: the ledger holds the record of the reset and that of the       *)
(* login.                                                                  *)
C33_Witness ==
  /\ last = Call("login", CardA, "OK")
  /\ VerifyPin(accounts[CardA], PinNew)
  /\ accounts[CardA].lastFailedLogin # NoTime
  /\ now < accounts[CardA].lastFailedLogin + TEMP_LOCK_DURATION
  /\ Len(transactions) = 2
  /\ transactions[1].timestamp = now
  /\ accounts[CardA].failedLoginAttempts = 0


(* The temporary lock of card c has run out and nothing has cleared the    *)
(* counters since: a successful login and an administrator's reset both    *)
(* set the count to 0 and remove the lock time.                            *)
LockExpired(c) ==
  /\ AccountExists(accounts, c)
  /\ ~accounts[c].isLocked
  /\ accounts[c].failedLoginAttempts >= MAX_FAILED_ATTEMPTS
  /\ accounts[c].temporaryLockTime # NoTime
  /\ ~IsTemporarilyLocked(accounts[c], now)

(* C35: the passing of time changes no account, so a lock that runs out    *)
(* leaves the failure count where it was; and once a lock has run out with *)
(* no successful login or reset since, one further wrong PIN raises the    *)
(* count by one (from 3 to 4 after the first lock) and locks the account   *)
(* again until 15 minutes after that attempt.                              *)
C35_ExpiryKeepsCount ==
  [][/\ now' # now => accounts' = accounts
     /\ \A c \in Customers, pin \in LockoutPins :
          (/\ LockExpired(c)
           /\ WrongPinAttempt(c, pin)
           /\ LoginStep(c, pin))
            => /\ accounts'[c].failedLoginAttempts = accounts[c].failedLoginAttempts + 1
               /\ accounts'[c].failedLoginAttempts > MAX_FAILED_ATTEMPTS
               /\ accounts'[c].temporaryLockTime = now + 15
               /\ IsTemporarilyLocked(accounts'[c], now')
               /\ last'.result = "WrongPinLocked"]_vars

(* The fourth wrong PIN came after the first lock had run out, and locked  *)
(* the account again.                                                      *)
C35_Witness ==
  /\ last = Call("login", CardA, "WrongPinLocked")
  /\ accounts[CardA].failedLoginAttempts = 4
  /\ accounts[CardA].lastFailedLogin = now
  /\ now >= 15
  /\ accounts[CardA].temporaryLockTime = now + 15
  /\ transactions = <<>>

----------------------------------------------------------------------------
(* Properties of SpecUpdate.                                               *)

(* The fields updateAccount has no assignment for.                         *)
KeptFields == {"cardNumber", "pinHash", "salt", "isAdmin", "failedLoginAttempts",
               "temporaryLockTime"}

(* C34: updateAccount leaves the account's cardNumber, PIN hash, salt,     *)
(* isAdmin flag, failedLoginAttempts and temporary-lock time as they were  *)
(* and touches no other account, whether or not the file could be written; *)
(* an update its validation rejects changes no account and appends no      *)
(* record.                                                                 *)
C34_UpdateFrame ==
  [][\A c \in Customers, q \in AdminRequests, ok \in BOOLEAN :
       (/\ last'.op = "updateAccount" /\ last'.card = c
        /\ UpdateAccount(c, q.holderName, q.balance, q.withdrawLimit, q.isLocked, ok))
         => /\ DOMAIN accounts' = DOMAIN accounts
            /\ \A d \in DOMAIN accounts : d # c => accounts'[d] = accounts[d]
            /\ AccountExists(accounts, c)
                 => \A f \in KeptFields : accounts'[c][f] = accounts[c][f]
            /\ ValidateUpdateAccount(accounts, c, q.holderName, q.balance, q.withdrawLimit) # "OK"
                 => Rejected]_vars

(* An update went through on an account that three wrong PINs had locked:  *)
(* the limit is the new one, the count and the lock time are still there.  *)
C34_Witness ==
  /\ last = Call("updateAccount", CardA, "OK")
  /\ accounts[CardA].withdrawLimit = 200
  /\ accounts[CardA].failedLoginAttempts = 3
  /\ accounts[CardA].temporaryLockTime # NoTime


----------------------------------------------------------------------------
(* Properties of SpecSession.                                              *)

(* C36: a loginWithCard or adminLogin that fails while a session is        *)
(* logged in leaves isLoggedIn, isAdmin and cardNumber as they were, so    *)
(* the session's card stays the one whose credentials the last successful  *)
(* login verified and the money calls keep acting on it.                   *)
C36_SessionIntegrity ==
  [][(/\ session.isLoggedIn
      /\ last'.op \in {"login", "adminLogin"}
      /\ last'.result # "OK")
       => session' = session]_vars


----------------------------------------------------------------------------
(* Properties of SpecBlocked.                                              *)

(* The account of card c is locked by the administrator or by a temporary  *)
(* lock that is still running.                                             *)
Locked(c) ==
  /\ AccountExists(accounts, c)
  /\ accounts[c].isLocked \/ IsTemporarilyLocked(accounts[c], now)

LockReasons == {"PermanentlyLocked", "TemporarilyLocked"}

(* C38: while an account is temporarily or permanently locked, a withdraw  *)
(* and a deposit on it fail, and a transfer that names it as source or as  *)
(* target fails, with every account and the ledger unchanged; between two  *)
(* different cards the reason is the lock.                                 *)
C38_LockBlocksMoney ==
  [][/\ (/\ last'.op = "withdraw" /\ last'.card = CardA
         /\ Locked(CardA)
         /\ Withdraw(CardA, 100, TRUE))
          => Rejected /\ last'.result \in LockReasons
     /\ (/\ last'.op = "deposit" /\ last'.card = CardA
         /\ Locked(CardA)
         /\ Deposit(CardA, 100, TRUE))
          => Rejected /\ last'.result \in LockReasons
     /\ \A c, d \in Customers :
          (/\ last'.op = "transfer" /\ last'.card = c
           /\ Locked(c) \/ Locked(d)
           /\ Transfer(c, d, 100, [i \in 1..3 |-> TRUE]))
            => /\ Rejected
               /\ c # d => last'.result \in LockReasons]_vars

(* A transfer from the unlocked card was refused because three wrong PINs  *)
(* had temporarily locked its target, which the administrator had not      *)
(* locked.                                                                 *)
C38_Witness ==
  /\ last = Call("transfer", CardB, "TemporarilyLocked")
  /\ ~accounts[CardA].isLocked
  /\ IsTemporarilyLocked(accounts[CardA], now)
  /\ ~accounts[CardB].isLocked
  /\ accounts[CardB].temporaryLockTime = NoTime

(* A withdraw on the temporarily locked card was refused.                  *)
C38_WithdrawWitness ==
  /\ last = Call("withdraw", CardA, "TemporarilyLocked")
  /\ IsTemporarilyLocked(accounts[CardA], now)


----------------------------------------------------------------------------
(* Properties of SpecAgree.                                                *)

(* The record of the card that was appended last.                          *)
LastRecordOf(txs, cardNumber) ==
  txs[CHOOSE i \in RecordsOf(txs, cardNumber) :
        \A j \in RecordsOf(txs, cardNumber) : j <= i]

(* C39: for every card that has a record in the ledger, the account is in  *)
(* the store and the balanceAfter of the card's most recently appended     *)
(* record is the stored balance.                                           *)
C39_LedgerAgrees ==
  \A c \in Cards :
    RecordsOf(transactions, c) # {}
      => /\ AccountExists(accounts, c)
         /\ LastRecordOf(transactions, c).balanceAfter = accounts[c].balance

(* A card has two records with different balances, the later one written   *)
(* by a successful call that moved its balance.                            *)
C39_Witness ==
  /\ last.result = "OK"
  /\ \E c \in Customers :
       /\ Cardinality(RecordsOf(transactions, c)) = 2
       /\ transactions[1].balanceAfter # transactions[2].balanceAfter
       /\ transactions[2].balanceAfter = accounts[c].balance

(* A transfer wrote the last record of both cards.                         *)
C39_TransferWitness ==
  /\ last = Call("transfer", CardA, "OK")
  /\ Len(transactions) = 2
  /\ transactions[1].cardNumber = CardA
  /\ transactions[2].cardNumber = CardB
  /\ accounts[CardA].balance = 0
  /\ accounts[CardB].balance = 300

(* An administrator's update wrote the last record of a card whose balance *)
(* it changed.                                                             *)
C39_UpdateWitness ==
  /\ last = Call("updateAccount", CardB, "OK")
  /\ Len(transactions) = 2
  /\ transactions[2].cardNumber = CardB
  /\ transactions[1].cardNumber = CardB
  /\ transactions[1].balanceAfter = 300
  /\ accounts[CardB].balance = 100


----------------------------------------------------------------------------
(* Properties of SpecCounters.                                             *)

(* C40: an account with a temporary-lock time set has at least             *)
(* MAX_FAILED_ATTEMPTS failed attempts counted, and an account with no     *)
(* failed attempt counted has no temporary-lock time.                      *)
C40_LockTimeMeansThreeFailures ==
  \A c \in DOMAIN accounts :
    /\ accounts[c].temporaryLockTime # NoTime
         => accounts[c].failedLoginAttempts >= MAX_FAILED_ATTEMPTS
    /\ accounts[c].failedLoginAttempts = 0
         => accounts[c].temporaryLockTime = NoTime

(* An administrator's update has gone through on an account that three     *)
(* wrong PINs had locked, and the lock time and the count are still there. *)
C40_Witness ==
  /\ last = Call("updateAccount", CardA, "OK")
  /\ accounts[CardA].temporaryLockTime # NoTime
  /\ accounts[CardA].failedLoginAttempts = MAX_FAILED_ATTEMPTS

(* A lock that had been set was cleared together with the count by the     *)
(* login that followed its expiry.                                         *)
C40_ClearedWitness ==
  /\ last = Call("login", CardA, "OK")
  /\ now >= TEMP_LOCK_DURATION
  /\ accounts[CardA].lastFailedLogin # NoTime
  /\ accounts[CardA].failedLoginAttempts = 0
  /\ accounts[CardA].temporaryLockTime = NoTime

(* A wrong PIN after the lock ran out counted a fourth failure.            *)
C40_FourthFailureWitness ==
  /\ AccountExists(accounts, CardA)
  /\ accounts[CardA].failedLoginAttempts > MAX_FAILED_ATTEMPTS
  /\ accounts[CardA].temporaryLockTime # NoTime


====
